---- MODULE Spec2Model ----
(***************************************************************************)
(* Voice-tracking core of the teleprompter (src/src/Teleprompter.tsx):     *)
(* the transcript-to-script alignment done by processTranscript, and the   *)
(* handlers that write the same state (reset, handleWordClick, the mode    *)
(* buttons, togglePlay, the lines-mode pause timer, edits of the script).  *)
(*                                                                         *)
(* A word is a sequence of one-character strings, so that its length and   *)
(* its normalisation are computed, not assumed.  Reference positions are   *)
(* 0-based as in the source; At(s, pos) reads position pos of a sequence.  *)
(* React applies queued state updates in the order they were queued, so a  *)
(* handler and the updater it passes to setTargetWordCount are one step.   *)
(***************************************************************************)
EXTENDS Integers, Sequences, FiniteSets, TLC

VARIABLES
    content,                 \* the editor's text, as its whitespace-delimited tokens
    mode,                    \* "auto" | "voice"
    isPlaying,
    fadeMode,                \* "none" | "words" | "lines" (fadeModeRef follows it)
    targetWordCount,         \* the cursor
    lastProcessedWordCount,  \* module-level: words of the hypothesis already consumed
    lastTranscriptTime,      \* module-level: time of the last processed event, 0 = none
    lastTranscriptTimeRef,   \* the component's copy, read by the pause timer
    isAtEndOfLineRef,        \* set by the layout measurement, cleared by the pause timer
    now,                     \* Date.now()
    threw,                   \* an updater raised a TypeError
    voiceLookahead,          \* the LOOKAHEAD setting (voiceLookaheadRef follows it)
    session,                 \* the recognition session: "none" | "open" | "stopped"
    spokenWordCount,         \* the displayed position (animated)
    animationTarget,         \* the targetWordCount the pending animation frame closed over
    ev                       \* history: the last operation and the state it started from

vars == <<content, mode, isPlaying, fadeMode, targetWordCount, lastProcessedWordCount,
          lastTranscriptTime, lastTranscriptTimeRef, isAtEndOfLineRef, now, threw,
          voiceLookahead, session, spokenWordCount, animationTarget, ev>>

Min(a, b) == IF a < b THEN a ELSE b
Max(a, b) == IF a > b THEN a ELSE b
At(s, pos) == s[pos + 1]

(***************************************************************************)
(* Vocabulary                                                              *)
(***************************************************************************)
w_the == <<"t","h","e">>
w_quick == <<"q","u","i","c","k">>
w_brown == <<"b","r","o","w","n">>
w_fox == <<"f","o","x">>
w_jumps == <<"j","u","m","p","s">>
w_over == <<"o","v","e","r">>
w_lazy == <<"l","a","z","y">>
w_dog == <<"d","o","g">>
w_so == <<"s","o">>
w_sara == <<"s","a","r","a">>
w_sarah == <<"s","a","r","a","h">>
w_elephant == <<"e","l","e","p","h","a","n","t">>
w_giraffes == <<"g","i","r","a","f","f","e","s">>
w_um == <<"u","m">>
w_hello == <<"h","e","l","l","o">>
w_a == <<"a">>
w_sea == <<"s","e","a">>
w_see == <<"s","e","e">>
w_sir == <<"s","i","r">>
w_smith == <<"s","m","i","t","h">>
w_schmidt == <<"s","c","h","m","i","d","t">>
\* raw tokens as a recognizer with punctuation emits them
t_The == <<"T","h","e">>
t_quickComma == <<"q","u","i","c","k",",">>
t_Sarah == <<"S","a","r","a","h",".">>
t_dash == <<"-","-">>

(***************************************************************************)
(* Normalisation and the phonetic judge                                    *)
(***************************************************************************)
UpperToLower == [T |-> "t", S |-> "s"]
toLowerCase(c) == IF c \in DOMAIN UpperToLower THEN UpperToLower[c] ELSE c

\* the characters \w keeps, after lower-casing
WordChars == {"a","b","c","d","e","f","g","h","i","j","k","l","m","n","o","p","q","r",
              "s","t","u","v","w","x","y","z","0","1","2","3","4","5","6","7","8","9","_"}

isWordChar(c) == c \in WordChars

normalizeWord(w) == SelectSeq([i \in 1..Len(w) |-> toLowerCase(w[i])], isWordChar)

normalizeAll(ws) == [i \in 1..Len(ws) |-> normalizeWord(ws[i])]

nonEmptyWord(w) == Len(w) > 0

\* the Double Metaphone codes (primary, secondary) of the vocabulary's words
doubleMetaphone(w) ==
    CASE w = w_quick    -> <<"KK", "KK">>
      [] w = w_brown    -> <<"PRN", "PRN">>
      [] w = w_jumps    -> <<"JMPS", "AMPS">>
      [] w = w_over     -> <<"AFR", "AFR">>
      [] w = w_lazy     -> <<"LS", "LS">>
      [] w = w_sara     -> <<"SR", "SR">>
      [] w = w_sarah    -> <<"SR", "SR">>
      [] w = w_elephant -> <<"ALFNT", "ALFNT">>
      [] w = w_giraffes -> <<"JRFS", "KRFS">>
      [] w = w_hello    -> <<"HL", "HL">>
      [] w = w_sea      -> <<"S", "S">>
      [] w = w_see      -> <<"S", "S">>
      [] w = w_sir      -> <<"SR", "SR">>
      [] w = w_smith    -> <<"SM0", "XMT">>
      [] w = w_schmidt  -> <<"XMT", "SMT">>

getPhoneticCodes(word) ==
    LET normalized == normalizeWord(word)
    IN  IF Len(normalized) < 2 THEN <<"", "">> ELSE doubleMetaphone(normalized)

\* every normalized word of the model that is long enough for the phonetic comparison
PhoneticVocabulary ==
    {w_quick, w_brown, w_jumps, w_over, w_lazy, w_sara, w_sarah, w_elephant, w_giraffes,
     w_hello, w_smith, w_schmidt}

\* getPhoneticCodes, evaluated once per word
PhoneticCodes == [w \in PhoneticVocabulary |-> getPhoneticCodes(w)]

\* variant: only the primary codes are compared
wordsMatchPhoneticallyPrimaryOnly(word1, word2) ==
    IF Len(word1) < 4 \/ Len(word2) < 4 THEN FALSE
    ELSE LET c1 == PhoneticCodes[word1]
             c2 == PhoneticCodes[word2]
         IN  c1[1] # "" /\ c2[1] # "" /\ c1[1] = c2[1]

wordsMatchPhonetically(word1, word2) ==
    IF Len(word1) < 4 \/ Len(word2) < 4 THEN FALSE
    ELSE LET c1 == PhoneticCodes[word1]
             c2 == PhoneticCodes[word2]
         IN  \/ (c1[1] # "" /\ c2[1] # "" /\ c1[1] = c2[1])
             \/ (c1[1] # "" /\ c2[2] # "" /\ c1[1] = c2[2])
             \/ (c1[2] # "" /\ c2[1] # "" /\ c1[2] = c2[1])
             \/ (c1[2] # "" /\ c2[2] # "" /\ c1[2] = c2[2])

wordsMatch(spoken, script) ==
    \/ spoken = script
    \/ (Len(spoken) >= 4 /\ Len(script) >= 4 /\ wordsMatchPhonetically(spoken, script))

(***************************************************************************)
(* Program constants of processTranscript                                  *)
(***************************************************************************)
DEFAULT_VOICE_LOOKAHEAD_WORDS == 50
VOICE_MAX_ADVANCE_PER_RESULT == 30
MaxAdvanceInterim == 15
PauseThresholdMs == 1000
RecentWordCount == 5
BackwardSkip == 5
BackwardRunMargin == 3
BackwardMinWordLength == 4
BackwardMinRun == 3
RunGap == 2

lookAheadOf(isLinesMode) == IF isLinesMode THEN 30 ELSE 100
\* variant: a look-behind window of 101 words outside lines mode
lookBehindOfOneMore(isLinesMode) == IF isLinesMode THEN 30 ELSE 101
lookBehindOf(isLinesMode) == IF isLinesMode THEN 30 ELSE 100
pauseMinLengthOf(isLinesMode) == IF isLinesMode THEN 4 ELSE 2
pauseWindowOf(isLinesMode) == IF isLinesMode THEN 5 ELSE 10
\* variant: the conservative minimum word length in every mode
minWordLengthStrict(isLinesMode) == 5
minWordLengthOf(isLinesMode) == IF isLinesMode THEN 5 ELSE 3
smallWindowOf(isLinesMode) == IF isLinesMode THEN 5 ELSE 15
longWordLengthOf(isLinesMode) == IF isLinesMode THEN 7 ELSE 5
minConsecutiveMatchesOf(isLinesMode) == IF isLinesMode THEN 3 ELSE 2

(***************************************************************************)
(* Candidate search                                                        *)
(***************************************************************************)
\* the lowest position in [from, from + window) and below the script's end whose
\* word matches, or -1: the forward for-loops with their break
firstMatchForward(word, ns, from, window) ==
    LET hits == {pos \in from..(Min(from + window, Len(ns)) - 1) : wordsMatch(word, At(ns, pos))}
    IN  IF hits = {} THEN -1 ELSE CHOOSE p \in hits : \A q \in hits : p <= q

\* the highest position in [searchStart, from] whose word matches, or -1: the
\* backward for-loop with its break (the caller rules out reads past the end)
firstMatchBackward(word, ns, from, searchStart) ==
    LET hits == {pos \in searchStart..from : wordsMatch(word, At(ns, pos))}
    IN  IF hits = {} THEN -1 ELSE CHOOSE p \in hits : \A q \in hits : p >= q

\* the inner gap loop of findConsecutiveMatches: the gap at which word is found, or -1
RECURSIVE gapSearch(_, _, _, _, _)
gapSearch(word, ns, scriptIdx, gap, maxGap) ==
    IF ~(gap <= maxGap /\ scriptIdx + gap < Len(ns)) THEN -1
    ELSE IF wordsMatch(word, At(ns, scriptIdx + gap)) THEN gap
    ELSE gapSearch(word, ns, scriptIdx, gap + 1, maxGap)

\* variant: a word of one character ends the run instead of being skipped
RECURSIVE consecutiveLoopBreakOnShort(_, _, _, _, _, _, _)
consecutiveLoopBreakOnShort(wtp, ns, i, scriptIdx, matches, lastMatchPos, maxGap) ==
    IF ~(i < Len(wtp) /\ scriptIdx < Len(ns))
    THEN [count |-> matches, endPos |-> lastMatchPos]
    ELSE LET word == At(wtp, i)
             gap == IF Len(word) <= 1 THEN -1 ELSE gapSearch(word, ns, scriptIdx, 0, maxGap)
         IN  IF gap < 0
             THEN [count |-> matches, endPos |-> lastMatchPos]
             ELSE consecutiveLoopBreakOnShort(wtp, ns, i + 1, scriptIdx + gap + 1,
                                              matches + 1, scriptIdx + gap, maxGap)

RECURSIVE consecutiveLoop(_, _, _, _, _, _, _)
consecutiveLoop(wtp, ns, i, scriptIdx, matches, lastMatchPos, maxGap) ==
    IF ~(i < Len(wtp) /\ scriptIdx < Len(ns))
    THEN [count |-> matches, endPos |-> lastMatchPos]
    ELSE LET word == At(wtp, i)
         IN  IF Len(word) <= 1
             THEN consecutiveLoop(wtp, ns, i + 1, scriptIdx, matches, lastMatchPos, maxGap)
             ELSE LET gap == gapSearch(word, ns, scriptIdx, 0, maxGap)
                  IN  IF gap < 0
                      THEN [count |-> matches, endPos |-> lastMatchPos]
                      ELSE consecutiveLoop(wtp, ns, i + 1, scriptIdx + gap + 1,
                                           matches + 1, scriptIdx + gap, maxGap)

findConsecutiveMatches(wtp, ns, spokenStart, scriptStart, maxGap) ==
    consecutiveLoop(wtp, ns, spokenStart, scriptStart, 0, scriptStart, maxGap)

\* variant: the calls leave maxGap to the parameter's default of 3
RECURSIVE bestRunDefaultGap(_, _, _, _, _, _, _)
bestRunDefaultGap(wtp, ns, pos, limit, minCount, bestMatches, bestPos) ==
    IF pos >= limit THEN [matches |-> bestMatches, pos |-> bestPos]
    ELSE LET result == findConsecutiveMatches(wtp, ns, 0, pos, RunGap + 1)
         IN  IF result.count >= minCount /\ result.count > bestMatches
             THEN bestRunDefaultGap(wtp, ns, pos + 1, limit, minCount, result.count,
                                    result.endPos + 1)
             ELSE bestRunDefaultGap(wtp, ns, pos + 1, limit, minCount, bestMatches, bestPos)

\* the two loops over candidate start positions pos in [pos, limit): the best
\* count of at least minCount, and the position just past its last match
RECURSIVE bestRun(_, _, _, _, _, _, _)
bestRun(wtp, ns, pos, limit, minCount, bestMatches, bestPos) ==
    IF pos >= limit THEN [matches |-> bestMatches, pos |-> bestPos]
    ELSE LET result == findConsecutiveMatches(wtp, ns, 0, pos, RunGap)
         IN  IF result.count >= minCount /\ result.count > bestMatches
             THEN bestRun(wtp, ns, pos + 1, limit, minCount, result.count, result.endPos + 1)
             ELSE bestRun(wtp, ns, pos + 1, limit, minCount, bestMatches, bestPos)

(***************************************************************************)
(* The phases of the updater processTranscript passes to setTargetWordCount *)
(***************************************************************************)
\* backward, single word: every word of 4+ characters scans down from current - skip
\* to the start of the look-behind window; a later word's match overwrites an earlier
\* one's, so the last word that matches decides
backwardSingleFrom(wtp, ns, current, lookBehind, skip) ==
    LET pos(i) == firstMatchBackward(At(wtp, i), ns, current - skip,
                                     Max(0, current - lookBehind))
        matching == {i \in 0..(Len(wtp) - 1) : /\ Len(At(wtp, i)) >= BackwardMinWordLength
                                               /\ pos(i) >= 0}
    IN  IF matching = {} THEN current
        ELSE pos(CHOOSE i \in matching : \A j \in matching : j <= i) + 1

\* variant: the single-word scan starts next to the cursor instead of 5 words back
backwardSingleNoSkip(wtp, ns, current, lookBehind) ==
    backwardSingleFrom(wtp, ns, current, lookBehind, 1)

\* variant: the single-word scan starts 4 words back
backwardSingleFourBack(wtp, ns, current, lookBehind) ==
    backwardSingleFrom(wtp, ns, current, lookBehind, BackwardSkip - 1)

backwardSingle(wtp, ns, current, lookBehind) ==
    backwardSingleFrom(wtp, ns, current, lookBehind, BackwardSkip)

\* variant: the backward run is scored whether or not a single word moved scriptPos
backwardRunAlways(wtp, ns, current, lookBehind, scriptPos) ==
    IF Len(wtp) >= 2
    THEN LET best == bestRun(wtp, ns, Max(0, current - lookBehind),
                             current - BackwardRunMargin, BackwardMinRun, 0, -1)
         IN  IF best.pos >= 0 /\ best.pos < current THEN best.pos ELSE scriptPos
    ELSE scriptPos

\* backward, consecutive run: only when no single word moved scriptPos
backwardRun(wtp, ns, current, lookBehind, scriptPos) ==
    IF Len(wtp) >= 2 /\ scriptPos = current
    THEN LET best == bestRun(wtp, ns, Max(0, current - lookBehind),
                             current - BackwardRunMargin, BackwardMinRun, 0, -1)
         IN  IF best.pos >= 0 /\ best.pos < current THEN best.pos ELSE scriptPos
    ELSE scriptPos

\* variant: the backward search runs in every mode
backwardPhaseAnyMode(wtp, ns, current, isLinesMode) ==
    backwardRun(wtp, ns, current, lookBehindOf(isLinesMode),
                backwardSingle(wtp, ns, current, lookBehindOf(isLinesMode)))

backwardPhase(wtp, ns, current, isLinesMode) ==
    IF ~isLinesMode
    THEN backwardRun(wtp, ns, current, lookBehindOf(isLinesMode),
                     backwardSingle(wtp, ns, current, lookBehindOf(isLinesMode)))
    ELSE current

\* the backward single-word scan reads normalizedScript[pos] for pos = current - 5
\* first; past the end that is undefined, and undefined.length raises a TypeError
backwardThrows(wtp, ns, current, isLinesMode) ==
    /\ ~isLinesMode
    /\ current - BackwardSkip >= Len(ns)
    /\ \E i \in 1..Len(wtp) : Len(wtp[i]) >= BackwardMinWordLength

\* forward after a pause: each word of pauseMinLength+ characters, first match in the
\* pause window; next is the value of scriptPos an iteration leaves to the following one
RECURSIVE pauseLoop(_, _, _, _, _)
pauseLoop(wtp, ns, i, isLinesMode, scriptPos) ==
    IF i >= Len(wtp) THEN scriptPos
    ELSE LET word == At(wtp, i)
             pos == IF Len(word) >= pauseMinLengthOf(isLinesMode)
                    THEN firstMatchForward(word, ns, scriptPos, pauseWindowOf(isLinesMode))
                    ELSE -1
         IN  CHOOSE r \in {pauseLoop(wtp, ns, i + 1, isLinesMode, next) :
                               next \in {IF pos >= 0 THEN pos + 1 ELSE scriptPos}} : TRUE

\* variant: the pause loop ends at the first word that matches
RECURSIVE pauseLoopFirstMatch(_, _, _, _, _)
pauseLoopFirstMatch(wtp, ns, i, isLinesMode, scriptPos) ==
    IF i >= Len(wtp) THEN scriptPos
    ELSE LET word == At(wtp, i)
             pos == IF Len(word) >= pauseMinLengthOf(isLinesMode)
                    THEN firstMatchForward(word, ns, scriptPos, pauseWindowOf(isLinesMode))
                    ELSE -1
         IN  IF pos >= 0 THEN pos + 1
             ELSE pauseLoopFirstMatch(wtp, ns, i + 1, isLinesMode, scriptPos)

pausePhaseFirstMatchOnly(wtp, ns, isLinesMode, isPaused, scriptPos) ==
    IF isPaused THEN pauseLoopFirstMatch(wtp, ns, 0, isLinesMode, scriptPos) ELSE scriptPos

\* variant: after a pause the position moves on by a word even when nothing matched
pausePhaseStepsOn(wtp, ns, isLinesMode, isPaused, scriptPos) ==
    IF isPaused
    THEN Max(pauseLoop(wtp, ns, 0, isLinesMode, scriptPos), Min(scriptPos + 1, Len(ns)))
    ELSE scriptPos

pausePhase(wtp, ns, isLinesMode, isPaused, scriptPos) ==
    IF isPaused THEN pauseLoop(wtp, ns, 0, isLinesMode, scriptPos) ELSE scriptPos

\* variant: every word of the local minimum length also scans the look-ahead window
regularWordFarForAll(word, ns, isLinesMode, scriptPos) ==
    LET near == IF Len(word) >= minWordLengthOf(isLinesMode)
                THEN firstMatchForward(word, ns, scriptPos, smallWindowOf(isLinesMode))
                ELSE -1
        afterNear == IF near >= 0 THEN near + 1 ELSE scriptPos
        far == IF Len(word) >= minWordLengthOf(isLinesMode)
               THEN firstMatchForward(word, ns, afterNear, lookAheadOf(isLinesMode))
               ELSE -1
    IN  IF far >= 0 THEN far + 1 ELSE afterNear

\* one word of the regular forward loop: the small window, then for a long word the
\* look-ahead window from wherever the first scan left scriptPos
regularWord(word, ns, isLinesMode, scriptPos) ==
    LET near == IF Len(word) >= minWordLengthOf(isLinesMode)
                THEN firstMatchForward(word, ns, scriptPos, smallWindowOf(isLinesMode))
                ELSE -1
        afterNear == IF near >= 0 THEN near + 1 ELSE scriptPos
        far == IF Len(word) >= longWordLengthOf(isLinesMode)
               THEN firstMatchForward(word, ns, afterNear, lookAheadOf(isLinesMode))
               ELSE -1
    IN  IF far >= 0 THEN far + 1 ELSE afterNear

\* variant: the regular loop ends at the first word that leaves scriptPos alone
RECURSIVE regularLoopStopsAtMiss(_, _, _, _, _)
regularLoopStopsAtMiss(wtp, ns, i, isLinesMode, scriptPos) ==
    IF i >= Len(wtp) THEN scriptPos
    ELSE CHOOSE r \in {IF next = scriptPos THEN scriptPos
                       ELSE regularLoopStopsAtMiss(wtp, ns, i + 1, isLinesMode, next) :
                          next \in {regularWord(At(wtp, i), ns, isLinesMode, scriptPos)}} : TRUE

RECURSIVE regularLoop(_, _, _, _, _)
regularLoop(wtp, ns, i, isLinesMode, scriptPos) ==
    IF i >= Len(wtp) THEN scriptPos
    ELSE CHOOSE r \in {regularLoop(wtp, ns, i + 1, isLinesMode, next) :
                          next \in {regularWord(At(wtp, i), ns, isLinesMode, scriptPos)}} : TRUE

regularPhase(wtp, ns, isLinesMode, scriptPos) == regularLoop(wtp, ns, 0, isLinesMode, scriptPos)

\* variant: among runs of equal count the last start position scored wins
RECURSIVE bestRunLatest(_, _, _, _, _, _, _)
bestRunLatest(wtp, ns, pos, limit, minCount, bestMatches, bestPos) ==
    IF pos >= limit THEN [matches |-> bestMatches, pos |-> bestPos]
    ELSE LET result == findConsecutiveMatches(wtp, ns, 0, pos, RunGap)
         IN  IF result.count >= minCount /\ result.count >= bestMatches
             THEN bestRunLatest(wtp, ns, pos + 1, limit, minCount, result.count,
                                result.endPos + 1)
             ELSE bestRunLatest(wtp, ns, pos + 1, limit, minCount, bestMatches, bestPos)

forwardRunLatestBest(wtp, ns, isLinesMode, scriptPos) ==
    IF Len(wtp) >= 2
    THEN LET best == bestRunLatest(wtp, ns, scriptPos,
                                   Min(scriptPos + lookAheadOf(isLinesMode), Len(ns)),
                                   minConsecutiveMatchesOf(isLinesMode), 0, scriptPos)
         IN  IF best.matches >= minConsecutiveMatchesOf(isLinesMode) THEN best.pos ELSE scriptPos
    ELSE scriptPos

\* forward, consecutive run
forwardRun(wtp, ns, isLinesMode, scriptPos) ==
    IF Len(wtp) >= 2
    THEN LET best == bestRun(wtp, ns, scriptPos,
                             Min(scriptPos + lookAheadOf(isLinesMode), Len(ns)),
                             minConsecutiveMatchesOf(isLinesMode), 0, scriptPos)
         IN  IF best.matches >= minConsecutiveMatchesOf(isLinesMode) THEN best.pos ELSE scriptPos
    ELSE scriptPos

\* variant: the regular single-word phase runs before the pause phase
candidatePositionRegularFirst(wtp, ns, current, isLinesMode, isPaused) ==
    CHOOSE scriptPos \in
        {forwardRun(wtp, ns, isLinesMode, afterPause) : afterPause \in
            {pausePhase(wtp, ns, isLinesMode, isPaused, afterRegular) : afterRegular \in
                {regularPhase(wtp, ns, isLinesMode, afterBackward) : afterBackward \in
                    {backwardPhase(wtp, ns, current, isLinesMode)}}}} : TRUE

\* scriptPos when the cap is applied: each phase starts from the value the phase
\* before it left
candidatePosition(wtp, ns, current, isLinesMode, isPaused) ==
    CHOOSE scriptPos \in
        {forwardRun(wtp, ns, isLinesMode, afterRegular) : afterRegular \in
            {regularPhase(wtp, ns, isLinesMode, afterPause) : afterPause \in
                {pausePhase(wtp, ns, isLinesMode, isPaused, afterBackward) : afterBackward \in
                    {backwardPhase(wtp, ns, current, isLinesMode)}}}} : TRUE

maxAdvanceOf(isFinal) == IF isFinal THEN VOICE_MAX_ADVANCE_PER_RESULT ELSE MaxAdvanceInterim

\* variant: the cap of a final result for every result
capAdvanceAsFinal(scriptPos, current, isFinal) ==
    Min(scriptPos, current + VOICE_MAX_ADVANCE_PER_RESULT)

capAdvance(scriptPos, current, isFinal) == Min(scriptPos, current + maxAdvanceOf(isFinal))

(***************************************************************************)
(* Scripts and hypotheses of the model                                     *)
(***************************************************************************)
FoxScript == <<w_the, w_quick, w_brown, w_fox, w_jumps, w_over, w_the, w_lazy, w_dog>>

\* 34 words: fillers of two letters, "sara" at 16, "elephant" at 29, "giraffes" at 32
LongScript ==
    [i \in 1..34 |-> CASE i = 17 -> w_sara [] i = 30 -> w_elephant [] i = 33 -> w_giraffes
                       [] OTHER -> w_so]

ShortScript == <<w_the, w_quick>>

\* "the -- quick brown": a dash typed between two words
DashedScript == <<w_the, t_dash, w_quick, w_brown>>

\* 17 different words but for "lazy", the first and the last of them
RefrainScript == <<w_lazy, w_quick, w_brown, w_fox, w_jumps, w_over, w_the, w_dog, w_sara,
                   w_elephant, w_giraffes, w_hello, w_smith, w_sea, w_sir, w_see, w_lazy>>

\* 106 words: "lazy" at 0 and 3, "sara" at 4, fillers of two letters
HundredScript ==
    [i \in 1..106 |-> CASE i = 1 -> w_lazy [] i = 4 -> w_lazy [] i = 5 -> w_sara
                        [] OTHER -> w_so]

\* "quick" twice, two positions apart
EchoScript == <<w_quick, w_brown, w_quick, w_fox>>

\* each text as the tokens split(/\s+/) gives
Texts == [empty |-> <<>>, short |-> ShortScript, fox |-> FoxScript, long |-> LongScript,
          dashed |-> DashedScript, refrain |-> RefrainScript,
          hundred |-> HundredScript, echo |-> EchoScript]

ContentNames == DOMAIN Texts

\* parseContentToSentences followed by flatMap: the tokens that are not the empty
\* string (filter(Boolean)), in order
flatWordsOf(c) == SelectSeq(Texts[c], nonEmptyWord)

NormalizedTexts == [c \in ContentNames |-> normalizeAll(flatWordsOf(c))]


\* the hypothesis texts a recognizer may deliver, each as its whitespace-delimited
\* tokens: nothing, punctuation only, filler; then per script verbatim readings,
\* re-readings and punctuated output
CommonHypotheses == {<<>>, <<t_dash>>, <<w_um, w_hello>>}

HypothesesFor(c) ==
    CommonHypotheses \cup
        CASE c = "fox" -> {SubSeq(FoxScript, 1, k) : k \in {1, 2, 4, 6, 9}}
                              \cup {<<w_jumps>>, <<w_fox, w_jumps, w_over>>,
                                    <<t_The, t_quickComma>>,
                                    <<w_the, w_um, w_um, w_um, w_um, w_hello>>}
          [] c = "long" -> {<<w_elephant, w_giraffes>>, <<t_Sarah>>, <<w_so, w_so, w_so>>}
          [] OTHER -> {}

\* the few hypotheses of the session-level specification
SessionHypotheses == {<<>>, <<w_the, w_quick>>, <<w_the, w_quick, w_brown, w_fox>>}

\* the rendered words the model clicks
ClickTargets == {0, 8, 20}

\* "none" and "words" are one profile to every statement of this model
FadeModes == {"words", "lines"}

PauseTimerThresholdMs == 800

\* time passes in steps of TimeStep ms, MaxSteps of them at most
TimeStep == 1000
MaxSteps == 2
MaxNow == TimeStep * (MaxSteps + 1)

(***************************************************************************)
(* History: ev describes the last operation (time passing is none).        *)
(*   before     the cursor the operation started from                      *)
(*   candidate  for a transcript event, scriptPos when the cap is applied  *)
(*              (the cursor, when no matching ran)                         *)
(*   shrunk     the event's text has fewer words than were consumed        *)
(*   repeated   the event's text is the previous event's, fully consumed   *)
(*   verbatim   every event since a fresh start at cursor 0 was a prefix   *)
(*              of the script, each at least as long as the one before     *)
(*   scenario   progress through the three events of the fox scenario      *)
(*   jumpedTo   the word last clicked, -1 once a transcript event, a reset *)
(*              or a mode button followed the click                        *)
(*   sinceReset, sessionStart                                              *)
(*              on a transcript event: it is the first one since the last  *)
(*              reset, since the start of its recognition session; on any  *)
(*              other operation: no transcript event has been processed    *)
(*              since. "dirty" when the reset or the start found words     *)
(*              consumed and a time recorded, "clean" when it did not      *)
(*   onThreshold                                                           *)
(*              a transcript event that found a time recorded exactly      *)
(*              1000 ms earlier                                            *)
(*   sinceEdit  likewise for the last change of the script: "edited",      *)
(*              until a click or the pause timer moves the cursor          *)
(***************************************************************************)
NoEvent == [op |-> "none", text |-> <<>>, isFinal |-> FALSE, isPaused |-> FALSE, before |-> 0,
            candidate |-> 0, shrunk |-> FALSE, repeated |-> FALSE, verbatim |-> FALSE, scenario |-> 0,
            jumpedTo |-> -1, sinceReset |-> "none", sessionStart |-> "none",
            sinceEdit |-> "none", onThreshold |-> FALSE, heard |-> <<>>]

\* what an operation found in the tracking state
trackingFound ==
    IF lastProcessedWordCount > 0 /\ lastTranscriptTime > 0 THEN "dirty" ELSE "clean"

\* a mark of ev that the first transcript event uses up
pendingMark(mark) == IF ev.op = "transcript" THEN "none" ELSE mark

Happened(op) ==
    [NoEvent EXCEPT !.op = op, !.before = targetWordCount, !.candidate = targetWordCount,
                    !.jumpedTo = ev.jumpedTo,
                    !.sinceReset = pendingMark(ev.sinceReset),
                    !.sessionStart = pendingMark(ev.sessionStart),
                    !.sinceEdit = pendingMark(ev.sinceEdit)]

HappenedAndSettled(op) == [Happened(op) EXCEPT !.jumpedTo = -1, !.sessionStart = "none"]

IsPrefix(s, t) == Len(s) <= Len(t) /\ s = SubSeq(t, 1, Len(s))

ScenarioFirst == <<w_the, w_quick>>
ScenarioSecond == <<w_the, w_quick, w_brown, w_fox>>
ScenarioThird == <<w_jumps>>

\* no animation frame is pending
NoAnimation == -1

\* the animation effect (lines 550-604) after a render with mode m, isPlaying p,
\* displayed position s and cursor t: in voice mode while playing it requests a frame
\* whose callback closes over t, otherwise it sets the displayed position to the cursor
animationAfter(m, p, t) == IF m = "voice" /\ p THEN t ELSE NoAnimation
spokenAfter(m, p, s, t) == IF m = "voice" /\ p THEN s ELSE t


(***************************************************************************)
(* State machine                                                           *)
(***************************************************************************)
Init ==
    /\ content = "empty"
    /\ mode = "auto"
    /\ isPlaying = FALSE
    /\ fadeMode = "lines"
    /\ targetWordCount = 0
    /\ lastProcessedWordCount = 0
    /\ lastTranscriptTime = 0
    /\ lastTranscriptTimeRef = 0
    /\ isAtEndOfLineRef = FALSE
    /\ now = TimeStep
    /\ threw = FALSE
    /\ voiceLookahead = DEFAULT_VOICE_LOOKAHEAD_WORDS
    /\ session = "none"
    /\ spokenWordCount = 0
    /\ animationTarget = NoAnimation
    /\ ev = NoEvent

mounted == ~threw
listening == mounted /\ mode = "voice" /\ isPlaying

\* the words an event matches: the unconsumed ones, or the last five when there are none
\* variant: with no new word the whole hypothesis is matched again
wordsToProcessWhole(normalizedSpoken, consumed) ==
    LET newWordsStart == Min(consumed, Len(normalizedSpoken))
        newWords == SubSeq(normalizedSpoken, newWordsStart + 1, Len(normalizedSpoken))
    IN  IF Len(newWords) > 0 THEN newWords ELSE normalizedSpoken

\* variant: without the fallback to the recent words
wordsToProcessNewOnly(normalizedSpoken, consumed) ==
    LET newWordsStart == Min(consumed, Len(normalizedSpoken))
    IN  SubSeq(normalizedSpoken, newWordsStart + 1, Len(normalizedSpoken))

wordsToProcessOf(normalizedSpoken, consumed) ==
    LET newWordsStart == Min(consumed, Len(normalizedSpoken))
        newWords == SubSeq(normalizedSpoken, newWordsStart + 1, Len(normalizedSpoken))
        recentWords == SubSeq(normalizedSpoken,
                              Max(1, Len(normalizedSpoken) - RecentWordCount + 1),
                              Len(normalizedSpoken))
    IN  IF Len(newWords) > 0 THEN newWords ELSE recentWords

\* variant: tokens that normalize to nothing are kept
normalizedSpokenUnfiltered(spokenWords) == normalizeAll(spokenWords)

normalizedSpokenOf(spokenWords) == SelectSeq(normalizeAll(spokenWords), nonEmptyWord)

\* variant: a gap of exactly the threshold counts as a pause
isPausedFromThreshold(last, t) == last > 0 /\ t - last >= PauseThresholdMs

\* the pause test on the module-level time of the last event
isPausedOf(last, t) == last > 0 /\ t - last > PauseThresholdMs

\* variant: a text without words is ignored as well
returnsEarlyWithoutWords(scriptWords, spokenWords) ==
    Len(scriptWords) = 0 \/ Len(normalizedSpokenOf(spokenWords)) = 0

\* variant: only a text without tokens is ignored
returnsEarlyOnEmptyText(scriptWords, spokenWords) == Len(spokenWords) = 0

\* variant: only an empty script is ignored
returnsEarlyOnEmptyScript(scriptWords, spokenWords) == Len(scriptWords) = 0

\* the event is ignored: no script word or no token
returnsEarly(scriptWords, spokenWords) == Len(scriptWords) = 0 \/ Len(spokenWords) = 0

\* processTranscript and the updater it queues; a bound variable holds a value the
\* source computes once
handleTranscript(transcript, isFinal) ==
    /\ mounted
    /\ \E normalizedSpoken \in {normalizedSpokenOf(transcript)} :
       \E wordsToProcess \in {wordsToProcessOf(normalizedSpoken, lastProcessedWordCount)} :
       LET scriptWords == flatWordsOf(content)
           spokenWords == transcript
           normalizedScript == NormalizedTexts[content]
           isPaused == isPausedOf(lastTranscriptTime, now)
           isLinesMode == fadeMode = "lines"
           fresh == targetWordCount = 0 /\ lastProcessedWordCount = 0 /\ lastTranscriptTime = 0
           record == [op |-> "transcript", text |-> transcript, isFinal |-> isFinal,
                      isPaused |-> FALSE, before |-> targetWordCount,
                      candidate |-> targetWordCount,
                      shrunk |-> lastProcessedWordCount > Len(normalizedSpoken),
                      repeated |-> /\ ev.op = "transcript"
                                   /\ ev.text = transcript
                                   /\ lastProcessedWordCount = Len(normalizedSpoken),
                      verbatim |-> /\ ev.verbatim
                                   /\ IsPrefix(transcript, scriptWords)
                                   /\ Len(ev.text) <= Len(transcript),
                      scenario |-> IF content = "fox" /\ fresh /\ ~isFinal
                                      /\ transcript = ScenarioFirst
                                   THEN 1
                                   ELSE IF ev.scenario = 1 /\ isFinal
                                           /\ transcript = ScenarioSecond
                                   THEN 2
                                   ELSE IF ev.scenario = 2 /\ ~isFinal /\ isPaused
                                           /\ transcript = ScenarioThird
                                   THEN 3
                                   ELSE 0,
                      jumpedTo |-> -1,
                      sinceReset |-> pendingMark(ev.sinceReset),
                      sessionStart |-> pendingMark(ev.sessionStart),
                      sinceEdit |-> pendingMark(ev.sinceEdit),
                      onThreshold |-> /\ lastTranscriptTime > 0
                                      /\ now - lastTranscriptTime = PauseThresholdMs,
                      heard |-> <<>>]
       IN  IF returnsEarly(scriptWords, spokenWords)
           THEN /\ ev' = record
                /\ UNCHANGED <<targetWordCount, lastProcessedWordCount, lastTranscriptTime,
                               lastTranscriptTimeRef, threw>>
           ELSE /\ lastProcessedWordCount' = Len(normalizedSpoken)
                /\ lastTranscriptTime' = now
                /\ lastTranscriptTimeRef' = now
                /\ IF Len(wordsToProcess) = 0
                   THEN /\ ev' = [record EXCEPT !.isPaused = isPaused]
                        /\ UNCHANGED <<targetWordCount, threw>>
                   ELSE IF backwardThrows(wordsToProcess, normalizedScript, targetWordCount,
                                          isLinesMode)
                   THEN /\ threw' = TRUE
                        /\ ev' = [record EXCEPT !.isPaused = isPaused]
                        /\ UNCHANGED targetWordCount
                   ELSE \E scriptPos \in {candidatePosition(wordsToProcess, normalizedScript,
                                              targetWordCount, isLinesMode, isPaused)} :
                            /\ targetWordCount' = capAdvance(scriptPos, targetWordCount, isFinal)
                            /\ ev' = [record EXCEPT !.isPaused = isPaused,
                                                    !.candidate = scriptPos]
                            /\ UNCHANGED threw
    /\ UNCHANGED <<content, mode, isPlaying, fadeMode, isAtEndOfLineRef, now, voiceLookahead, session, spokenWordCount, animationTarget>>

\* a result of the running session: socket.onmessage or recognition.onresult calls
\* processTranscript with the hypothesis
processTranscript(transcript, isFinal) ==
    /\ listening
    /\ handleTranscript(transcript, isFinal)

\* a result of a session that has been stopped: neither handler looks at isActive or
\* at the session it belongs to before it calls processTranscript
onmessageAfterStop(transcript, isFinal) ==
    /\ session = "stopped"
    /\ handleTranscript(transcript, isFinal)

\* clicking the rendered word wordIndex
handleWordClick(wordIndex) ==
    /\ listening
    /\ wordIndex \in 0..(Len(flatWordsOf(content)) - 1)
    /\ targetWordCount' = wordIndex
    /\ lastProcessedWordCount' = 0
    /\ lastTranscriptTime' = 0
    /\ ev' = [Happened("click") EXCEPT !.jumpedTo = wordIndex, !.sinceEdit = "none",
                                       !.heard = IF ev.op = "transcript" THEN ev.text ELSE <<>>]
    /\ spokenWordCount' = spokenAfter(mode, isPlaying, wordIndex, wordIndex)
    /\ animationTarget' = animationAfter(mode, isPlaying, wordIndex)
    /\ UNCHANGED <<content, mode, isPlaying, fadeMode, lastTranscriptTimeRef,
                   isAtEndOfLineRef, now, threw, voiceLookahead, session>>

\* the recognition effects (lines 936-1123, 1126-1234) after a render with mode m
\* and isPlaying p: a session runs while both hold; when they stop holding the
\* cleanup closes the socket or stops the recognizer
sessionAfter(m, p) ==
    IF m = "voice" /\ p THEN "open" ELSE IF session = "open" THEN "stopped" ELSE session

\* variant: the reset button without resetTrackingState()
resetKeepsTracking ==
    /\ mounted
    /\ isPlaying' = FALSE
    /\ targetWordCount' = 0
    /\ lastTranscriptTimeRef' = 0
    /\ isAtEndOfLineRef' = FALSE
    /\ ev' = [HappenedAndSettled("reset") EXCEPT !.sinceReset = trackingFound]
    /\ session' = sessionAfter(mode, FALSE)
    /\ spokenWordCount' = spokenAfter(mode, FALSE, 0, 0)
    /\ animationTarget' = animationAfter(mode, FALSE, 0)
    /\ UNCHANGED <<content, mode, fadeMode, lastProcessedWordCount, lastTranscriptTime,
                   now, threw, voiceLookahead>>

reset ==
    /\ mounted
    /\ isPlaying' = FALSE
    /\ targetWordCount' = 0
    /\ lastProcessedWordCount' = 0
    /\ lastTranscriptTime' = 0
    /\ lastTranscriptTimeRef' = 0
    /\ isAtEndOfLineRef' = FALSE
    /\ ev' = [HappenedAndSettled("reset") EXCEPT !.sinceReset = trackingFound]
    /\ session' = sessionAfter(mode, FALSE)
    /\ spokenWordCount' = spokenAfter(mode, FALSE, 0, 0)
    /\ animationTarget' = animationAfter(mode, FALSE, 0)
    /\ UNCHANGED <<content, mode, fadeMode, now, threw, voiceLookahead>>

selectAutoMode ==
    /\ mounted
    /\ mode' = "auto"
    /\ targetWordCount' = 0
    /\ ev' = HappenedAndSettled("auto")
    /\ session' = sessionAfter("auto", isPlaying)
    /\ spokenWordCount' = spokenAfter("auto", isPlaying, 0, 0)
    /\ animationTarget' = animationAfter("auto", isPlaying, 0)
    /\ UNCHANGED <<content, isPlaying, fadeMode, lastProcessedWordCount, lastTranscriptTime,
                   lastTranscriptTimeRef, isAtEndOfLineRef, now, threw, voiceLookahead>>

selectVoiceMode ==
    /\ mounted
    /\ mode' = "voice"
    /\ isPlaying' = FALSE
    /\ targetWordCount' = 0
    /\ lastProcessedWordCount' = 0
    /\ lastTranscriptTime' = 0
    /\ ev' = HappenedAndSettled("voice")
    /\ session' = sessionAfter("voice", FALSE)
    /\ spokenWordCount' = spokenAfter("voice", FALSE, 0, 0)
    /\ animationTarget' = animationAfter("voice", FALSE, 0)
    /\ UNCHANGED <<content, fadeMode, lastTranscriptTimeRef, isAtEndOfLineRef, now, threw, voiceLookahead>>

\* variant: a recognition session that starts without resetTrackingState()
togglePlayKeepsTracking ==
    /\ mounted
    /\ isPlaying' = ~isPlaying
    /\ ev' = [Happened("toggle") EXCEPT
                 !.verbatim = ~isPlaying /\ mode = "voice" /\ targetWordCount = 0,
                 !.sessionStart = IF ~isPlaying /\ mode = "voice" THEN trackingFound
                                  ELSE "none"]
    /\ session' = sessionAfter(mode, ~isPlaying)
    /\ spokenWordCount' = spokenAfter(mode, ~isPlaying, spokenWordCount, targetWordCount)
    /\ animationTarget' = animationAfter(mode, ~isPlaying, targetWordCount)
    /\ UNCHANGED <<content, mode, fadeMode, targetWordCount, lastProcessedWordCount,
                   lastTranscriptTime, lastTranscriptTimeRef, isAtEndOfLineRef, now, threw, voiceLookahead>>

\* play/pause; starting to play in voice mode starts a recognition session, whose
\* first statement is resetTrackingState()
togglePlay ==
    /\ mounted
    /\ isPlaying' = ~isPlaying
    /\ IF ~isPlaying /\ mode = "voice"
       THEN lastProcessedWordCount' = 0 /\ lastTranscriptTime' = 0
       ELSE UNCHANGED <<lastProcessedWordCount, lastTranscriptTime>>
    /\ ev' = [Happened("toggle") EXCEPT
                 !.verbatim = ~isPlaying /\ mode = "voice" /\ targetWordCount = 0,
                 !.sessionStart = IF ~isPlaying /\ mode = "voice" THEN trackingFound
                                  ELSE "none"]
    /\ session' = sessionAfter(mode, ~isPlaying)
    /\ spokenWordCount' = spokenAfter(mode, ~isPlaying, spokenWordCount, targetWordCount)
    /\ animationTarget' = animationAfter(mode, ~isPlaying, targetWordCount)
    /\ UNCHANGED <<content, mode, fadeMode, targetWordCount, lastTranscriptTimeRef,
                   isAtEndOfLineRef, now, threw, voiceLookahead>>

\* the editor is editable only while not playing
setContent(c) ==
    /\ mounted
    /\ ~isPlaying
    /\ c # content
    /\ content' = c
    /\ ev' = [Happened("edit") EXCEPT !.sinceEdit = "edited"]
    /\ UNCHANGED <<mode, isPlaying, fadeMode, targetWordCount, lastProcessedWordCount,
                   lastTranscriptTime, lastTranscriptTimeRef, isAtEndOfLineRef, now, threw, voiceLookahead, session, spokenWordCount, animationTarget>>

\* the fade buttons of the voice settings; outside lines mode the rendered script
\* clears the end-of-line flag
setFadeMode(m) ==
    /\ mounted
    /\ mode = "voice"
    /\ m # fadeMode
    /\ fadeMode' = m
    /\ isAtEndOfLineRef' = IF listening /\ m # "lines" THEN FALSE ELSE isAtEndOfLineRef
    /\ ev' = Happened("fade")
    /\ UNCHANGED <<content, mode, isPlaying, targetWordCount, lastProcessedWordCount,
                   lastTranscriptTime, lastTranscriptTimeRef, now, threw, voiceLookahead, session, spokenWordCount, animationTarget>>

\* the LOOKAHEAD slider of the voice settings
setVoiceLookahead(v) ==
    /\ mounted
    /\ mode = "voice"
    /\ v # voiceLookahead
    /\ voiceLookahead' = v
    /\ ev' = Happened("lookahead")
    /\ UNCHANGED <<content, mode, isPlaying, fadeMode, targetWordCount, lastProcessedWordCount,
                   lastTranscriptTime, lastTranscriptTimeRef, isAtEndOfLineRef, now, threw,
                   session, spokenWordCount, animationTarget>>

\* the layout measurement of the rendered script: whether the next word starts a new line
measureLine(atEnd) ==
    /\ listening
    /\ fadeMode = "lines"
    /\ atEnd # isAtEndOfLineRef
    /\ isAtEndOfLineRef' = atEnd
    /\ ev' = Happened("measure")
    /\ UNCHANGED <<content, mode, isPlaying, fadeMode, targetWordCount, lastProcessedWordCount,
                   lastTranscriptTime, lastTranscriptTimeRef, now, threw, voiceLookahead, session, spokenWordCount, animationTarget>>

\* variant: the timer does not look at the end-of-line flag
pauseTickWithoutFlag ==
    /\ listening
    /\ fadeMode = "lines"
    /\ lastTranscriptTimeRef > 0
    /\ now - lastTranscriptTimeRef > PauseTimerThresholdMs
    /\ targetWordCount' = IF targetWordCount + 1 >= Len(flatWordsOf(content))
                          THEN targetWordCount
                          ELSE targetWordCount + 1
    /\ isAtEndOfLineRef' = FALSE
    /\ ev' = [Happened("tick") EXCEPT !.sinceEdit = "none"]
    /\ UNCHANGED <<content, mode, isPlaying, fadeMode, lastProcessedWordCount,
                   lastTranscriptTime, lastTranscriptTimeRef, now, threw, voiceLookahead, session, spokenWordCount, animationTarget>>

\* variant: the timer advances without looking at the end of the script
pauseTickPastEnd ==
    /\ listening
    /\ fadeMode = "lines"
    /\ lastTranscriptTimeRef > 0
    /\ now - lastTranscriptTimeRef > PauseTimerThresholdMs
    /\ isAtEndOfLineRef
    /\ targetWordCount' = targetWordCount + 1
    /\ isAtEndOfLineRef' = FALSE
    /\ ev' = [Happened("tick") EXCEPT !.sinceEdit = "none"]
    /\ UNCHANGED <<content, mode, isPlaying, fadeMode, lastProcessedWordCount,
                   lastTranscriptTime, lastTranscriptTimeRef, now, threw, voiceLookahead, session, spokenWordCount, animationTarget>>

\* a firing of the 200 ms pause timer that finds its condition true
pauseTick ==
    /\ listening
    /\ fadeMode = "lines"
    /\ lastTranscriptTimeRef > 0
    /\ now - lastTranscriptTimeRef > PauseTimerThresholdMs
    /\ isAtEndOfLineRef
    /\ targetWordCount' = IF targetWordCount + 1 >= Len(flatWordsOf(content))
                          THEN targetWordCount
                          ELSE targetWordCount + 1
    /\ isAtEndOfLineRef' = FALSE
    /\ ev' = [Happened("tick") EXCEPT !.sinceEdit = "none"]
    /\ UNCHANGED <<content, mode, isPlaying, fadeMode, lastProcessedWordCount,
                   lastTranscriptTime, lastTranscriptTimeRef, now, threw, voiceLookahead, session, spokenWordCount, animationTarget>>

\* animation speed: words per second
wordsPerSecond == 3

\* the time between two animation frames, in ms; 0 is the first frame after the effect
\* ran, which finds lastAnimationTimeRef cleared
FrameDeltas == {0, 16, 500, 1000}

\* Math.round of a non-negative number given in thousandths
roundThousandths(x) == (x + 500) \div 1000

\* the updater of setSpokenWordCount in animate, for a callback that closed over
\* target; wordsThisFrame is (wordsPerSecond * delta) / 1000
nextSpokenWordCount(current, target, delta) ==
    LET wordsThisFrame == wordsPerSecond * delta
        step == Max(1000, wordsThisFrame)
    IN  IF current = target THEN current
        ELSE IF current < target
             THEN roundThousandths(Min(1000 * current + step, 1000 * target))
             ELSE roundThousandths(Max(1000 * current - step, 1000 * target))

\* an animation frame: the pending callback runs and requests the next frame
animate(delta) ==
    /\ mounted
    /\ animationTarget # NoAnimation
    /\ spokenWordCount' = nextSpokenWordCount(spokenWordCount, animationTarget, delta)
    /\ ev' = Happened("frame")
    /\ UNCHANGED <<content, mode, isPlaying, fadeMode, targetWordCount, lastProcessedWordCount,
                   lastTranscriptTime, lastTranscriptTimeRef, isAtEndOfLineRef, now, threw,
                   voiceLookahead, session, animationTarget>>

\* the animation effect runs again after a render that changed mode, isPlaying or
\* the cursor: the cleanup cancels the pending frame, the new callback closes over
\* the new cursor
animationEffect ==
    /\ mounted
    /\ \/ animationTarget # animationAfter(mode, isPlaying, targetWordCount)
       \/ spokenWordCount # spokenAfter(mode, isPlaying, spokenWordCount, targetWordCount)
    /\ animationTarget' = animationAfter(mode, isPlaying, targetWordCount)
    /\ spokenWordCount' = spokenAfter(mode, isPlaying, spokenWordCount, targetWordCount)
    /\ ev' = Happened("effect")
    /\ UNCHANGED <<content, mode, isPlaying, fadeMode, targetWordCount, lastProcessedWordCount,
                   lastTranscriptTime, lastTranscriptTimeRef, isAtEndOfLineRef, now, threw,
                   voiceLookahead, session>>

advanceTime(ms) ==
    /\ now + ms <= MaxNow
    /\ now' = now + ms
    /\ UNCHANGED <<content, mode, isPlaying, fadeMode, targetWordCount, lastProcessedWordCount,
                   lastTranscriptTime, lastTranscriptTimeRef, isAtEndOfLineRef, threw, voiceLookahead, session, spokenWordCount, animationTarget, ev>>

Next ==
    \/ \E transcript \in SessionHypotheses, isFinal \in BOOLEAN :
          processTranscript(transcript, isFinal)
    \/ \E wordIndex \in ClickTargets : handleWordClick(wordIndex)
    \/ reset
    \/ selectAutoMode
    \/ selectVoiceMode
    \/ togglePlay
    \/ \E c \in {"empty", "short", "fox"} : setContent(c)
    \/ \E m \in FadeModes : setFadeMode(m)
    \/ \E atEnd \in BOOLEAN : measureLine(atEnd)
    \/ pauseTick
    \/ advanceTime(TimeStep)

Spec == Init /\ [][Next]_vars

(***************************************************************************)
(* One listening session: the script and the fade mode are fixed, the      *)
(* recognizer delivers any hypothesis, the reader may click and fall       *)
(* silent.                                                                 *)
(***************************************************************************)
InitListening ==
    /\ content \in {"fox", "long"}
    /\ mode = "voice"
    /\ isPlaying = TRUE
    /\ fadeMode \in {"words", "lines"}
    /\ targetWordCount = 0
    /\ lastProcessedWordCount = 0
    /\ lastTranscriptTime = 0
    /\ lastTranscriptTimeRef = 0
    /\ isAtEndOfLineRef = FALSE
    /\ now = TimeStep
    /\ threw = FALSE
    /\ voiceLookahead = DEFAULT_VOICE_LOOKAHEAD_WORDS
    /\ session = "open"
    /\ spokenWordCount = targetWordCount
    /\ animationTarget = targetWordCount
    /\ ev = [NoEvent EXCEPT !.verbatim = TRUE]

NextListening ==
    \/ \E transcript \in HypothesesFor(content), isFinal \in BOOLEAN :
          processTranscript(transcript, isFinal)
    \/ \E wordIndex \in ClickTargets : handleWordClick(wordIndex)
    \/ advanceTime(2 * TimeStep)

ListeningSpec == InitListening /\ [][NextListening]_vars

(***************************************************************************)
(* One listening session in which the reader moves the LOOKAHEAD slider.   *)
(***************************************************************************)
\* the ends of the slider's range
SliderValues == {4, 30}

InitLookahead == InitListening

NextLookahead ==
    \/ \E transcript \in HypothesesFor(content), isFinal \in BOOLEAN :
          processTranscript(transcript, isFinal)
    \/ \E v \in SliderValues : setVoiceLookahead(v)

LookaheadSpec == InitLookahead /\ [][NextLookahead]_vars

(***************************************************************************)
(* The judge alone: wordsMatch applied to any two words of JudgeWords; ev   *)
(* holds the two words and the answer.                                     *)
(***************************************************************************)
JudgeWords ==
    {<<>>, w_sea, w_see, w_sir, w_sara, w_sarah, w_smith, w_schmidt, w_quick, w_jumps,
     w_giraffes, w_hello}

InitJudge == Init

judge(spoken, script) ==
    /\ ev' = [op |-> "wordsMatch", spoken |-> spoken, script |-> script,
              result |-> wordsMatch(spoken, script)]
    /\ UNCHANGED <<content, mode, isPlaying, fadeMode, targetWordCount, lastProcessedWordCount,
                   lastTranscriptTime, lastTranscriptTimeRef, isAtEndOfLineRef, now, threw, voiceLookahead, session, spokenWordCount, animationTarget>>

NextJudge == \E spoken \in JudgeWords, script \in JudgeWords : judge(spoken, script)

JudgeSpec == InitJudge /\ [][NextJudge]_vars

(***************************************************************************)
(* The updater alone: processTranscript has passed its updater to           *)
(* setTargetWordCount, and React applies it to the cursor. The closure      *)
(* holds wordsToProcess, isPaused and isFinal.                              *)
(***************************************************************************)
\* the words a queued updater may hold, per script
UpdaterWordsFor(c) ==
    CASE c = "fox" -> {<<w_quick>>, <<w_over>>, <<w_the>>, <<w_jumps, w_quick>>,
                       <<w_the, w_quick>>, <<w_quick, w_over>>, <<w_the, w_fox, w_over>>,
                       <<w_fox, w_the, w_dog>>, <<w_the, w_fox, w_lazy>>,
                       <<w_fox, w_jumps, w_over>>, <<w_the, w_a, w_quick>>,
                       <<w_um, w_hello>>, <<w_lazy, w_dog>>, <<w_over, w_quick>>,
                       <<w_hello, w_quick>>}
      [] c = "long" -> {<<w_sara>>, <<w_sarah>>, <<w_elephant>>, <<w_giraffes>>,
                        <<w_so, w_so>>, <<w_so, w_so, w_so>>, <<w_sara, w_elephant>>,
                        <<w_elephant, w_giraffes>>, <<w_so, w_so, w_sara, w_elephant>>}
      [] c = "dashed" -> {<<w_the>>, <<w_quick>>, <<w_the, w_quick>>, <<w_quick, w_brown>>}
      [] c = "echo" -> {<<w_quick>>, <<w_brown>>, <<w_quick, w_brown>>}
      [] OTHER -> {}

InitUpdater ==
    /\ content \in {"fox", "long", "dashed", "echo"}
    /\ mode = "voice"
    /\ isPlaying = TRUE
    /\ fadeMode \in FadeModes
    /\ targetWordCount \in 0..Len(NormalizedTexts[content])
    /\ \E wordsToProcess \in UpdaterWordsFor(content), isPaused \in BOOLEAN,
          isFinal \in BOOLEAN :
          ev = [op |-> "queued", wordsToProcess |-> wordsToProcess,
                isPaused |-> isPaused, isFinal |-> isFinal]
    /\ lastProcessedWordCount = Len(ev.wordsToProcess)
    /\ lastTranscriptTime = TimeStep
    /\ lastTranscriptTimeRef = TimeStep
    /\ isAtEndOfLineRef = FALSE
    /\ now = TimeStep
    /\ threw = FALSE
    /\ voiceLookahead = DEFAULT_VOICE_LOOKAHEAD_WORDS
    /\ session = "open"
    /\ spokenWordCount = targetWordCount
    /\ animationTarget = targetWordCount

\* the function of lines 739-922 applied to the cursor; the record keeps the value
\* of scriptPos after each phase
updater ==
    /\ mounted
    /\ ev.op = "queued"
    /\ \E current \in {targetWordCount}, isLinesMode \in {fadeMode = "lines"},
          normalizedScript \in {NormalizedTexts[content]} :
       \E afterSingle \in {IF isLinesMode THEN current
                           ELSE backwardSingle(ev.wordsToProcess, normalizedScript, current,
                                               lookBehindOf(isLinesMode))} :
       \E afterBackward \in {backwardPhase(ev.wordsToProcess, normalizedScript, current,
                                           isLinesMode)} :
       \E afterPause \in {pausePhase(ev.wordsToProcess, normalizedScript, isLinesMode,
                                     ev.isPaused, afterBackward)} :
       \E afterRegular \in {regularPhase(ev.wordsToProcess, normalizedScript, isLinesMode,
                                         afterPause)} :
       \E afterRun \in {forwardRun(ev.wordsToProcess, normalizedScript, isLinesMode,
                                   afterRegular)} :
       \E scriptPos \in {candidatePosition(ev.wordsToProcess, normalizedScript, current,
                                           isLinesMode, ev.isPaused)} :
          /\ targetWordCount' = capAdvance(scriptPos, current, ev.isFinal)
          /\ ev' = [op |-> "updated", wordsToProcess |-> ev.wordsToProcess,
                    isPaused |-> ev.isPaused, isFinal |-> ev.isFinal,
                    current |-> current, afterSingle |-> afterSingle,
                    afterBackward |-> afterBackward, afterPause |-> afterPause,
                    afterRegular |-> afterRegular, afterRun |-> afterRun,
                    scriptPos |-> scriptPos]
    /\ UNCHANGED <<content, mode, isPlaying, fadeMode, lastProcessedWordCount,
                   lastTranscriptTime, lastTranscriptTimeRef, isAtEndOfLineRef, now, threw,
                   voiceLookahead, session, spokenWordCount, animationTarget>>

NextUpdater == updater

UpdaterSpec == InitUpdater /\ [][NextUpdater]_vars

(***************************************************************************)
(* findConsecutiveMatches alone, applied to its three arguments             *)
(***************************************************************************)
\* the words the function is called over
ScanWordsFor(c) ==
    UpdaterWordsFor(c) \cup (IF c = "fox" THEN {<<w_the, w_a, w_fox, w_dog>>} ELSE {})

\* the gaps tried: the one every call site passes, the parameter's default, and less
ScanGaps == {0, 1, 2, 3}

InitScan ==
    /\ content \in {"fox", "long"}
    /\ mode = "voice"
    /\ isPlaying = TRUE
    /\ fadeMode = "words"
    /\ targetWordCount = 0
    /\ \E wordsToProcess \in ScanWordsFor(content), maxGap \in ScanGaps :
       \E spokenStart \in 0..(Len(wordsToProcess) - 1),
          scriptStart \in 0..(Len(NormalizedTexts[content]) - 1) :
          ev = [op |-> "call", wordsToProcess |-> wordsToProcess,
                spokenStart |-> spokenStart, scriptStart |-> scriptStart, maxGap |-> maxGap]
    /\ lastProcessedWordCount = Len(ev.wordsToProcess)
    /\ lastTranscriptTime = TimeStep
    /\ lastTranscriptTimeRef = TimeStep
    /\ isAtEndOfLineRef = FALSE
    /\ now = TimeStep
    /\ threw = FALSE
    /\ voiceLookahead = DEFAULT_VOICE_LOOKAHEAD_WORDS
    /\ session = "open"
    /\ spokenWordCount = targetWordCount
    /\ animationTarget = targetWordCount

\* one call of the function; the record keeps its result
callFindConsecutiveMatches ==
    /\ mounted
    /\ ev.op = "call"
    /\ \E result \in {findConsecutiveMatches(ev.wordsToProcess, NormalizedTexts[content],
                                             ev.spokenStart, ev.scriptStart, ev.maxGap)} :
          ev' = [op |-> "returned", wordsToProcess |-> ev.wordsToProcess,
                 spokenStart |-> ev.spokenStart, scriptStart |-> ev.scriptStart,
                 maxGap |-> ev.maxGap, count |-> result.count, endPos |-> result.endPos]
    /\ UNCHANGED <<content, mode, isPlaying, fadeMode, targetWordCount,
                   lastProcessedWordCount, lastTranscriptTime, lastTranscriptTimeRef,
                   isAtEndOfLineRef, now, threw, voiceLookahead, session, spokenWordCount, animationTarget>>

NextScan == callFindConsecutiveMatches

ScanSpec == InitScan /\ [][NextScan]_vars

(***************************************************************************)
(* A session in which the script is read word for word: every hypothesis    *)
(* is a prefix of the script, longer than the one before it                 *)
(***************************************************************************)
\* the lengths of the prefixes delivered, per script
ReadingLengths(c) ==
    CASE c = "fox" -> {1, 2, 4, 6, 9}
      [] c = "refrain" -> {2, 8, 16, 17}
      [] OTHER -> {}

InitReading ==
    /\ content \in {"fox", "refrain"}
    /\ mode = "voice"
    /\ isPlaying = TRUE
    /\ fadeMode \in FadeModes
    /\ targetWordCount = 0
    /\ lastProcessedWordCount = 0
    /\ lastTranscriptTime = 0
    /\ lastTranscriptTimeRef = 0
    /\ isAtEndOfLineRef = FALSE
    /\ now = TimeStep
    /\ threw = FALSE
    /\ voiceLookahead = DEFAULT_VOICE_LOOKAHEAD_WORDS
    /\ session = "open"
    /\ spokenWordCount = targetWordCount
    /\ animationTarget = targetWordCount
    /\ ev = [NoEvent EXCEPT !.verbatim = TRUE]

NextReading ==
    \/ \E k \in ReadingLengths(content), isFinal \in BOOLEAN :
          /\ k > Len(ev.text)
          /\ processTranscript(SubSeq(flatWordsOf(content), 1, k), isFinal)
    \/ advanceTime(TimeStep)

ReadingSpec == InitReading /\ [][NextReading]_vars

(***************************************************************************)
(* The updater at the far end of a script longer than the look-behind       *)
(* window, for single words                                                 *)
(***************************************************************************)
FarWords == {<<w_lazy>>, <<w_sara>>, <<w_sarah>>, <<w_so>>}

InitFar ==
    /\ content = "hundred"
    /\ mode = "voice"
    /\ isPlaying = TRUE
    /\ fadeMode \in FadeModes
    /\ targetWordCount \in 90..Len(NormalizedTexts[content])
    /\ \E wordsToProcess \in FarWords, isPaused \in BOOLEAN, isFinal \in BOOLEAN :
          ev = [op |-> "queued", wordsToProcess |-> wordsToProcess,
                isPaused |-> isPaused, isFinal |-> isFinal]
    /\ lastProcessedWordCount = Len(ev.wordsToProcess)
    /\ lastTranscriptTime = TimeStep
    /\ lastTranscriptTimeRef = TimeStep
    /\ isAtEndOfLineRef = FALSE
    /\ now = TimeStep
    /\ threw = FALSE
    /\ voiceLookahead = DEFAULT_VOICE_LOOKAHEAD_WORDS
    /\ session = "open"
    /\ spokenWordCount = targetWordCount
    /\ animationTarget = targetWordCount

NextFar == updater

FarSpec == InitFar /\ [][NextFar]_vars

(***************************************************************************)
(* Sessions that are stopped and started, and results that arrive late      *)
(***************************************************************************)
InitStop ==
    /\ content = "fox"
    /\ mode = "voice"
    /\ isPlaying = TRUE
    /\ fadeMode \in FadeModes
    /\ targetWordCount = 0
    /\ lastProcessedWordCount = 0
    /\ lastTranscriptTime = 0
    /\ lastTranscriptTimeRef = 0
    /\ isAtEndOfLineRef = FALSE
    /\ now = TimeStep
    /\ threw = FALSE
    /\ voiceLookahead = DEFAULT_VOICE_LOOKAHEAD_WORDS
    /\ session = "open"
    /\ spokenWordCount = targetWordCount
    /\ animationTarget = targetWordCount
    /\ ev = NoEvent

NextStop ==
    \/ \E transcript \in SessionHypotheses, isFinal \in BOOLEAN :
          processTranscript(transcript, isFinal)
    \/ \E transcript \in SessionHypotheses, isFinal \in BOOLEAN :
          onmessageAfterStop(transcript, isFinal)
    \/ reset
    \/ selectAutoMode
    \/ selectVoiceMode
    \/ togglePlay
    \/ advanceTime(TimeStep)

StopSpec == InitStop /\ [][NextStop]_vars

(***************************************************************************)
(* The displayed position follows the cursor of a listening session        *)
(***************************************************************************)
InitAnimation == InitStop

NextAnimation ==
    \/ \E transcript \in SessionHypotheses, isFinal \in BOOLEAN :
          processTranscript(transcript, isFinal)
    \/ \E wordIndex \in ClickTargets : handleWordClick(wordIndex)
    \/ togglePlay
    \/ animationEffect
    \/ \E delta \in FrameDeltas : animate(delta)
    \/ advanceTime(TimeStep)

AnimationSpec == InitAnimation /\ [][NextAnimation]_vars

(***************************************************************************)
(* Properties                                                              *)
(***************************************************************************)
IsTranscript == ev.op = "transcript"

\* a step of processTranscript (time passing leaves ev alone)
TranscriptStep == ev'.op = "transcript" /\ now' = now

scriptLength == Len(flatWordsOf(content))

\* the words of a text: its tokens that contain a letter, a digit or an underscore
wordCount(text) ==
    Cardinality({i \in 1..Len(text) : \E k \in 1..Len(text[i]) : text[i][k] \in WordChars
                                                                 \/ text[i][k] \in DOMAIN UpperToLower})

\* C1: a transcript event raises the cursor by at most 30 when it is final and by
\* at most 15 when it is interim
C1_AdvanceIsCapped ==
    IsTranscript => targetWordCount - ev.before <= (IF ev.isFinal THEN 30 ELSE 15)

\* a final event whose candidate lay more than 30 words ahead and was cut to 30
C1_Witness ==
    /\ IsTranscript
    /\ ev.isFinal
    /\ ev.candidate > ev.before + 30
    /\ targetWordCount = ev.before + 30

\* C2: the cursor lies between 0 and the number of words of the script
C2_CursorInRange == 0 <= targetWordCount /\ targetWordCount <= scriptLength

\* C3 as stated: after a transcript event the consumed count is at most the number
\* of words of the event's text, an empty text included
C3_ConsumedAtMostWords ==
    IsTranscript => lastProcessedWordCount <= wordCount(ev.text)

\* C3: after a transcript event with at least one token, on a script that is not
\* empty, the consumed count is the number of words of the event's text
C3_ConsumedIsWordsOfText ==
    IsTranscript /\ Len(ev.text) > 0 /\ scriptLength > 0
        => lastProcessedWordCount = wordCount(ev.text)

\* a hypothesis shorter than what had been consumed, and the count brought down to it
C3_Witness ==
    /\ IsTranscript
    /\ ev.shrunk
    /\ Len(ev.text) > 0
    /\ scriptLength > 0
    /\ lastProcessedWordCount = wordCount(ev.text)

\* the words a step of processTranscript matches
stepWords == wordsToProcessOf(normalizedSpokenOf(ev'.text), lastProcessedWordCount)

\* at least 3 of the words match in order, at most 2 script words skipped between
\* matches, from a start in the look-behind window that ends before cursor - 3
RunThresholdMet(words, ns, current) ==
    \E pos \in Max(0, current - 100)..(current - 4) :
        findConsecutiveMatches(words, ns, 0, pos, 2).count >= 3

\* a word of 4+ characters matches a script word between 100 and 5 words behind
SingleBackwardMatch(words, ns, current) ==
    \E i \in 1..Len(words) :
        /\ Len(words[i]) >= 4
        /\ \E pos \in Max(0, current - 100)..Min(current - 5, Len(ns) - 1) :
               wordsMatch(words[i], At(ns, pos))

\* C4 as stated: a transcript event lowers the cursor only if the backward run
\* threshold of 3 is met
C4_BackwardOnlyByRun ==
    [][TranscriptStep /\ targetWordCount' < targetWordCount
          => RunThresholdMet(stepWords, NormalizedTexts[content], targetWordCount)]_vars

\* C4: a transcript event lowers the cursor only if a single word of 4+ characters
\* matches at least 5 words behind the cursor or the backward run threshold of 3 is met
C4_BackwardNeedsEvidence ==
    [][TranscriptStep /\ targetWordCount' < targetWordCount
          => \/ SingleBackwardMatch(stepWords, NormalizedTexts[content], targetWordCount)
             \/ RunThresholdMet(stepWords, NormalizedTexts[content], targetWordCount)]_vars

\* an event of fewer than 3 words lowered the cursor
C4_Witness ==
    /\ IsTranscript
    /\ targetWordCount < ev.before
    /\ wordCount(ev.text) < 3

\* C5: once a verbatim stream over a script of at most 30 words has delivered the
\* whole script as a final hypothesis, the cursor is the number of words
C5_VerbatimReachesEnd ==
    /\ IsTranscript
    /\ ev.verbatim
    /\ ev.isFinal
    /\ scriptLength <= 30
    /\ ev.text = flatWordsOf(content)
    => targetWordCount = scriptLength

\* no word of the text is equivalent to a script word at position from or later
NoOverlap(text, ns, from) ==
    \A i \in 1..Len(text), pos \in from..(Len(ns) - 1) :
        ~wordsMatch(normalizeWord(text[i]), At(ns, pos))

\* the first script position an event may read: the cursor in lines mode, 100 words
\* behind it otherwise
searchStart(current) == IF fadeMode = "lines" THEN current ELSE Max(0, current - 100)

\* C6: a transcript event none of whose words is equivalent to a script word from
\* the start of its search window on leaves the cursor where it was
C6_NoOverlapNoMove ==
    IsTranscript /\ NoOverlap(ev.text, NormalizedTexts[content], searchStart(ev.before))
        => targetWordCount = ev.before

\* such an event with words, after a pause, away from the start of the script
C6_Witness ==
    /\ IsTranscript
    /\ NoOverlap(ev.text, NormalizedTexts[content], 0)
    /\ wordCount(ev.text) > 0
    /\ ev.isPaused
    /\ 0 < ev.before
    /\ ev.before < scriptLength
    /\ targetWordCount = ev.before

lastWords(text, n) ==
    LET words == normalizedSpokenOf(text)
    IN  SubSeq(words, Max(1, Len(words) - n + 1), Len(words))

\* C7 as stated: the same text again, already consumed in full, leaves the cursor
\* where the first event put it
C7_RepeatDoesNotMove ==
    IsTranscript /\ ev.repeated => targetWordCount = ev.before

\* C7: the same text again, already consumed in full, leaves the consumed count as
\* it was, and leaves the cursor where it was when none of the text's last 5 words
\* is equivalent to a word of the script
C7_RepeatRematchesLastFive ==
    IsTranscript /\ ev.repeated
        => /\ lastProcessedWordCount = wordCount(ev.text)
           /\ NoOverlap(lastWords(ev.text, 5), NormalizedTexts[content], 0)
                  => targetWordCount = ev.before

\* a repeated text of more than 5 words whose first word is in the script and whose
\* last 5 are not
C7_Witness ==
    /\ IsTranscript
    /\ ev.repeated
    /\ wordCount(ev.text) > 5
    /\ ~NoOverlap(ev.text, NormalizedTexts[content], 0)
    /\ NoOverlap(lastWords(ev.text, 5), NormalizedTexts[content], 0)
    /\ targetWordCount = ev.before

ScenarioOutcome ==
    /\ ev.scenario = 1 => targetWordCount = 2
    /\ ev.scenario = 2 => targetWordCount = 4 /\ lastProcessedWordCount = 4
    /\ ev.scenario = 3 => targetWordCount = 5

\* C8 as stated: on the fox script from a fresh state, interim "the quick" gives
\* cursor 2, final "the quick brown fox" cursor 4 and consumed 4, and interim
\* "jumps" more than 1000 ms later cursor 5
C8_FoxScenario == IsTranscript => ScenarioOutcome

\* C8: the same, when the fade mode is not "lines"
C8_FoxScenarioOutsideLinesMode == IsTranscript /\ fadeMode # "lines" => ScenarioOutcome

\* the third event of the scenario has been processed
C8_Witness ==
    /\ IsTranscript
    /\ fadeMode # "lines"
    /\ ev.scenario = 3
    /\ ev.isPaused
    /\ targetWordCount = 5

\* C9: in lines mode a transcript event never lowers the cursor
C9_LinesModeNeverBackward ==
    IsTranscript /\ fadeMode = "lines" => targetWordCount >= ev.before

\* a lines-mode event whose last word is 4+ characters long and matches a script
\* word at least 5 words behind the cursor
C9_Witness ==
    /\ IsTranscript
    /\ fadeMode = "lines"
    /\ SingleBackwardMatch(lastWords(ev.text, 1), NormalizedTexts[content], ev.before)
    /\ targetWordCount >= ev.before

\* C10: after a click on word i, and until a transcript event is processed (or the
\* reader resets or picks a mode), the cursor is i; right after the click the
\* consumed count is 0
C10_JumpStands ==
    /\ ev.op = "click" => lastProcessedWordCount = 0
    /\ ev.jumpedTo >= 0 => targetWordCount = ev.jumpedTo

\* the tracking state holds no consumed word and no time
TrackingIsFresh == lastProcessedWordCount = 0 /\ lastTranscriptTime = 0

\* C11: a reset leaves cursor 0, consumed count 0 and both recorded times 0, and
\* the first transcript event after it finds that state: it is not treated as paused
\* and all the words of its text are matched as new
C11_ResetClears ==
    [][/\ ev'.op = "reset" => /\ targetWordCount' = 0
                               /\ lastProcessedWordCount' = 0
                               /\ lastTranscriptTime' = 0
                               /\ lastTranscriptTimeRef' = 0
       /\ TranscriptStep /\ ev'.sinceReset # "none"
             => /\ TrackingIsFresh
                /\ ~ev'.isPaused
                /\ stepWords = normalizedSpokenOf(ev'.text)]_vars

\* the first event after a reset that found words consumed and a time recorded,
\* more than 1000 ms after the session's start
C11_Witness ==
    /\ IsTranscript
    /\ ev.sinceReset = "dirty"
    /\ wordCount(ev.text) > 0
    /\ scriptLength > 0
    /\ ~ev.isPaused
    /\ lastProcessedWordCount = wordCount(ev.text)
    /\ now > TimeStep + PauseThresholdMs

\* C12: the first transcript event matched against a script after the script changed
\* (no click and no pause-timer advance in between) finds cursor 0 and consumed count 0
C12_TextChangeResets ==
    [][TranscriptStep /\ ev'.sinceEdit # "none" /\ wordCount(ev'.text) > 0 /\ scriptLength > 0
          => targetWordCount = 0 /\ lastProcessedWordCount = 0]_vars

TrackingUnchanged ==
    UNCHANGED <<targetWordCount, lastProcessedWordCount, lastTranscriptTime,
                lastTranscriptTimeRef, threw>>

\* C14: while the script has no word a transcript event changes neither the cursor
\* nor the consumed count nor the recorded times, and raises no error
C14_EmptyScriptNoOp ==
    [][TranscriptStep /\ scriptLength = 0 => TrackingUnchanged]_vars

\* an event with words, on an empty script, that left the consumed count at 0 and
\* no time recorded
C14_Witness ==
    /\ IsTranscript
    /\ scriptLength = 0
    /\ wordCount(ev.text) > 0
    /\ lastProcessedWordCount = 0
    /\ lastTranscriptTime = 0
    /\ lastTranscriptTimeRef = 0
    /\ ~threw

\* C15: a transcript event whose text has no token changes neither the cursor nor
\* the consumed count nor the recorded times
C15_EmptyTextNoOp ==
    [][TranscriptStep /\ Len(ev'.text) = 0 => TrackingUnchanged]_vars

\* an event without text after an event with words, on a script with words, later
\* than the time recorded
C15_Witness ==
    /\ IsTranscript
    /\ Len(ev.text) = 0
    /\ scriptLength > 0
    /\ lastProcessedWordCount > 0
    /\ 0 < lastTranscriptTime
    /\ lastTranscriptTime < now
    /\ lastTranscriptTimeRef = lastTranscriptTime

\* C16: processing a transcript event never raises an error (a read of a script
\* position past the end is what raises one)
C16_NeverRaises == ~threw

\* the codes of a word that are not empty
codesOf(w) == {doubleMetaphone(w)[1], doubleMetaphone(w)[2]} \ {""}

\* C17: wordsMatch answers true exactly when the two words are equal, or both have
\* 4 or more characters and share a code that is not empty; a word of fewer than 4
\* characters matches only its equal
C17_JudgeIsEqualityOrSharedCode ==
    ev.op = "wordsMatch"
        => /\ ev.result <=> \/ ev.spoken = ev.script
                            \/ /\ Len(ev.spoken) >= 4
                               /\ Len(ev.script) >= 4
                               /\ codesOf(ev.spoken) \cap codesOf(ev.script) # {}
           /\ Len(ev.spoken) < 4 \/ Len(ev.script) < 4
                  => (ev.result <=> ev.spoken = ev.script)

\* two different words matched through the secondary code of one of them
C17_Witness ==
    /\ ev.op = "wordsMatch"
    /\ ev.result
    /\ ev.spoken # ev.script
    /\ doubleMetaphone(ev.spoken)[1] # doubleMetaphone(ev.script)[1]

\* C18: a transcript event that matches a single word forward accepts no script
\* position at or beyond cursor + the LOOKAHEAD setting
C18_ConfiguredLookaheadBounds ==
    [][TranscriptStep /\ Len(stepWords) = 1 /\ ev'.candidate > targetWordCount
          => ev'.candidate - 1 < targetWordCount + voiceLookahead]_vars

\* the operations that set the cursor at the reader's or the recognizer's request: a
\* transcript event, a reset (the mode buttons reset the cursor too), a click
CursorOperations == {"transcript", "reset", "auto", "voice", "click"}

\* C19 as stated: the cursor changes only in a step that processes a transcript
\* event, resets or jumps
C19_CursorChangesOnlyByOperations ==
    [][targetWordCount' # targetWordCount
          => now' = now /\ ev'.op \in CursorOperations]_vars

\* C19: the cursor changes only in a step that processes a transcript event, resets,
\* jumps, or is a pause-timer tick in lines mode, more than 800 ms after the last
\* event with the end-of-line flag set, which raises the cursor by 1; never by the
\* passing of time alone
C19_CursorChangesByOperationsOrTick ==
    [][targetWordCount' # targetWordCount
          => /\ now' = now
             /\ \/ ev'.op \in CursorOperations
                \/ /\ ev'.op = "tick"
                   /\ fadeMode = "lines"
                   /\ lastTranscriptTimeRef > 0
                   /\ now - lastTranscriptTimeRef > 800
                   /\ isAtEndOfLineRef
                   /\ targetWordCount' = targetWordCount + 1]_vars

\* a tick moved the cursor during a silence
C19_Witness ==
    /\ ev.op = "tick"
    /\ targetWordCount = ev.before + 1
    /\ now - lastTranscriptTimeRef > 800
    /\ ~isAtEndOfLineRef

\* the words of W from index min(consumed, |W|) on, or the last min(5, |W|) words of
\* W when there is none
SliceOrLastFive(W, consumed) ==
    LET from == IF consumed < Len(W) THEN consumed ELSE Len(W)
        count == IF Len(W) < 5 THEN Len(W) ELSE 5
    IN  IF from < Len(W)
        THEN [i \in 1..(Len(W) - from) |-> W[from + i]]
        ELSE [i \in 1..count |-> W[Len(W) - count + i]]

ConsumeStep ==
    /\ stepWords = SliceOrLastFive(normalizedSpokenOf(ev'.text), lastProcessedWordCount)
    /\ lastProcessedWordCount' = Len(normalizedSpokenOf(ev'.text))

\* C20 as stated: every transcript event processes the words of its list W from
\* min(consumed, |W|) on, or the last min(5, |W|) when there is none, and leaves the
\* consumed count at |W|
C20_ConsumeEveryEvent == [][TranscriptStep => ConsumeStep]_vars

\* C20: the same, for a transcript event with at least one token processed while
\* the script is not empty
C20_ConsumeProcessedEvent ==
    [][TranscriptStep /\ Len(ev'.text) > 0 /\ scriptLength > 0 => ConsumeStep]_vars

\* an event with fewer than 5 words, all consumed before and not the previous
\* event's text, whose words were matched again
C20_Witness ==
    /\ IsTranscript
    /\ ev.shrunk
    /\ ~ev.repeated
    /\ wordCount(ev.text) > 0
    /\ wordCount(ev.text) < 5
    /\ lastProcessedWordCount = wordCount(ev.text)
    /\ targetWordCount # ev.before

\* a step of processTranscript that passes the early return
ProcessedStep == TranscriptStep /\ Len(ev'.text) > 0 /\ scriptLength > 0

\* C21: a processed event is treated as paused exactly when a time is recorded and
\* more than 1000 ms have passed since it; the first event after a reset, a click or
\* a session start is not paused
C21_PausedExactlyAfterThreshold ==
    [][ProcessedStep
          => /\ ev'.isPaused <=> (lastTranscriptTime > 0 /\ now - lastTranscriptTime > 1000)
             /\ ev'.sinceReset # "none" \/ ev'.sessionStart # "none" \/ ev.op = "click"
                    => ~ev'.isPaused]_vars

\* an event exactly 1000 ms after the event before it, not paused
C21_Witness ==
    /\ IsTranscript
    /\ ev.onThreshold
    /\ ~ev.isPaused
    /\ wordCount(ev.text) > 0
    /\ scriptLength > 0
    /\ lastTranscriptTime = now

EventTimeSet == lastTranscriptTime' = now /\ lastTranscriptTimeRef' = now

\* C22 as stated: every transcript event sets the recorded time to the event's time
C22_EveryEventSetsTime == [][TranscriptStep => EventTimeSet]_vars

\* C22: every transcript event with at least one token, processed while the script
\* is not empty, sets the recorded time to the event's time, also when it has no
\* word to process
C22_ProcessedEventSetsTime == [][ProcessedStep => EventTimeSet]_vars

\* an event of tokens without a word, more than 1000 ms after the time recorded
\* before it, that set the time
C22_Witness ==
    /\ IsTranscript
    /\ Len(ev.text) > 0
    /\ wordCount(ev.text) = 0
    /\ ev.isPaused
    /\ lastTranscriptTime = now
    /\ lastTranscriptTimeRef = now
    /\ targetWordCount = ev.before

(***************************************************************************)
(* The phases of the updater                                               *)
(***************************************************************************)
IsUpdated == ev.op = "updated"

\* the reference word at the 0-based position p
referenceAt(p) == NormalizedTexts[content][p + 1]

\* the 0-based positions p of set at which the reference word matches word
matchesIn(word, set) ==
    {p \in set : p >= 0 /\ p < Len(NormalizedTexts[content]) /\ wordsMatch(word, referenceAt(p))}

Highest(set) == CHOOSE p \in set : \A q \in set : q <= p
Lowest(set) == CHOOSE p \in set : \A q \in set : p <= q

\* C23: with backward matching enabled, each processed word of 4+ characters is
\* scanned from cursor-5 down to max(0, cursor-100) of the pre-event cursor and its
\* first match p sets the tentative cursor to p+1 (the last word that matches
\* decides); shorter words and positions in [cursor-4, cursor) never match
C23_BackwardSingleWord ==
    IsUpdated /\ fadeMode # "lines"
        => LET wtp == ev.wordsToProcess
               window == Max(0, ev.current - 100)..(ev.current - 5)
               movers == {i \in 1..Len(wtp) : /\ Len(wtp[i]) >= 4
                                              /\ matchesIn(wtp[i], window) # {}}
           IN  IF movers = {} THEN ev.afterSingle = ev.current
               ELSE ev.afterSingle = Highest(matchesIn(wtp[Highest(movers)], window)) + 1

\* two words match behind the cursor, the first of them at cursor-5, and the second
\* one's match, further back, is where the scan ends
C23_Witness ==
    /\ IsUpdated
    /\ fadeMode # "lines"
    /\ Len(ev.wordsToProcess) = 2
    /\ ev.current >= 5
    /\ wordsMatch(ev.wordsToProcess[1], referenceAt(ev.current - 5))
    /\ ev.afterSingle < ev.current - 4
    /\ wordsMatch(ev.wordsToProcess[2], referenceAt(ev.afterSingle - 1))

\* the number of words a run from the start position pos matches, and the position
\* just past its last match, with the gap every call site passes
runCount(pos) ==
    findConsecutiveMatches(ev.wordsToProcess, NormalizedTexts[content], 0, pos, 2).count
runEnd(pos) ==
    findConsecutiveMatches(ev.wordsToProcess, NormalizedTexts[content], 0, pos, 2).endPos + 1

\* the start positions of set whose run has the highest count, that count being at
\* least minCount
bestStarts(set, minCount) ==
    {pos \in set : runCount(pos) >= minCount /\ \A q \in set : runCount(q) <= runCount(pos)}

\* C24: the backward run phase acts only when no backward single word matched and 2
\* or more words are processed; over the starts in [max(0, cursor-100), cursor-3) it
\* takes the best run of 3 or more matches, and the position past its last match
\* becomes the tentative cursor only if it is strictly less than the pre-event cursor
C24_BackwardRun ==
    IsUpdated /\ fadeMode # "lines"
        => LET starts == Max(0, ev.current - 100)..(ev.current - 4)
               best == bestStarts(starts, 3)
           IN  IF /\ ev.afterSingle = ev.current
                  /\ Len(ev.wordsToProcess) >= 2
                  /\ best # {}
                  /\ runEnd(Lowest(best)) < ev.current
               THEN ev.afterBackward = runEnd(Lowest(best))
               ELSE ev.afterBackward = ev.afterSingle

\* a backward run accepted although every single word failed
C24_Witness ==
    /\ IsUpdated
    /\ fadeMode # "lines"
    /\ ev.afterSingle = ev.current
    /\ ev.afterBackward < ev.current
    /\ ev.afterBackward = runEnd(Lowest(bestStarts(0..(ev.current - 4), 3)))

\* the pause window from the position from, and the least length of a word scanned
pauseWindowFrom(from) == from..(from + (IF fadeMode = "lines" THEN 5 ELSE 10) - 1)
pauseWordLength == IF fadeMode = "lines" THEN 4 ELSE 2

\* C25 as stated: the pause phase moves the tentative cursor only for a paused event,
\* and then past at most one reference match, found within the pause window of the
\* tentative cursor the phase started from
C25_PausePastOneMatch ==
    IsUpdated
        => \/ ev.afterPause = ev.afterBackward
           \/ /\ ev.isPaused
              /\ \E i \in 1..Len(ev.wordsToProcess) :
                    /\ Len(ev.wordsToProcess[i]) >= pauseWordLength
                    /\ ev.afterPause - 1
                          \in matchesIn(ev.wordsToProcess[i], pauseWindowFrom(ev.afterBackward))

\* the tentative cursor after the words from the i-th on, each word of the length
\* taking the lowest match in the pause window of the position the word before it left
RECURSIVE pauseWalk(_, _)
pauseWalk(i, from) ==
    IF i > Len(ev.wordsToProcess) THEN from
    ELSE LET hits == IF Len(ev.wordsToProcess[i]) >= pauseWordLength
                     THEN matchesIn(ev.wordsToProcess[i], pauseWindowFrom(from))
                     ELSE {}
         IN  pauseWalk(i + 1, IF hits = {} THEN from ELSE Lowest(hits) + 1)

\* C25: the pause phase moves the tentative cursor only for a paused event; it takes
\* the processed words in order and every word of the pause minimum length (2, or 4
\* conservative) moves the tentative cursor past its lowest match within the pause
\* window (10, or 5 conservative) of where the word before it left the cursor
C25_PauseEveryMatchingWord ==
    IsUpdated
        => ev.afterPause = IF ev.isPaused THEN pauseWalk(1, ev.afterBackward)
                           ELSE ev.afterBackward

\* a paused event that moved past two matches, the second beyond the pause window
\* of the position the phase started from
C25_Witness ==
    /\ IsUpdated
    /\ ev.isPaused
    /\ \A p \in pauseWindowFrom(ev.afterBackward) : p < ev.afterPause - 1
    /\ \E i \in 1..Len(ev.wordsToProcess) :
          ev.afterPause - 1 \in matchesIn(ev.wordsToProcess[i], 0..ev.afterPause)

\* the lengths and windows of the regular phase under the session's profile
localWordLength == IF fadeMode = "lines" THEN 5 ELSE 3
longRangeWordLength == IF fadeMode = "lines" THEN 7 ELSE 5
narrowWindowFrom(from) == from..(from + (IF fadeMode = "lines" THEN 5 ELSE 15) - 1)
wideWindowFrom(from) == from..(from + (IF fadeMode = "lines" THEN 30 ELSE 100) - 1)

\* one past the lowest position of window at which word matches, or from when word
\* is shorter than length or matches nowhere in window
pastLowestMatch(word, length, window, from) ==
    IF Len(word) >= length /\ matchesIn(word, window) # {}
    THEN Lowest(matchesIn(word, window)) + 1
    ELSE from

\* the tentative cursor after the words from the i-th on: a narrow scan, then a wide
\* one for a long word, each from where the scan before it left the cursor
RECURSIVE regularWalk(_, _)
regularWalk(i, from) ==
    IF i > Len(ev.wordsToProcess) THEN from
    ELSE LET word == ev.wordsToProcess[i]
             afterNarrow == pastLowestMatch(word, localWordLength, narrowWindowFrom(from), from)
         IN  regularWalk(i + 1, pastLowestMatch(word, longRangeWordLength,
                                                wideWindowFrom(afterNarrow), afterNarrow))

\* C26: in the regular single-word phase a word shorter than the local minimum (3,
\* or 5 conservative) never moves the tentative cursor; a word of that length matches
\* only within the narrow window (15, or 5); only a word of the long-range length (5,
\* or 7) matches beyond it, up to the look-ahead window; each scan puts the tentative
\* cursor one past the lowest matching position
C26_RegularSingleWord ==
    IsUpdated
        => /\ ev.afterRegular = regularWalk(1, ev.afterPause)
           /\ (\A i \in 1..Len(ev.wordsToProcess) :
                  Len(ev.wordsToProcess[i]) < localWordLength)
                 => ev.afterRegular = ev.afterPause
           /\ (\A i \in 1..Len(ev.wordsToProcess) :
                  Len(ev.wordsToProcess[i]) < longRangeWordLength)
                 => ev.afterRegular - ev.afterPause
                       <= Len(ev.wordsToProcess) * Cardinality(narrowWindowFrom(0))

\* a single long word matched beyond the narrow window
C26_Witness ==
    /\ IsUpdated
    /\ Len(ev.wordsToProcess) = 1
    /\ Len(ev.wordsToProcess[1]) >= longRangeWordLength
    /\ \A p \in narrowWindowFrom(ev.afterPause) : p < ev.afterRegular - 1
    /\ ev.afterRegular - 1 \in matchesIn(ev.wordsToProcess[1], wideWindowFrom(ev.afterPause))

\* the start positions the forward run scores from the position from
forwardStartsFrom(from) ==
    {pos \in wideWindowFrom(from) : pos < Len(NormalizedTexts[content])}
minConsecutiveForConfidence == IF fadeMode = "lines" THEN 3 ELSE 2

\* C27: the forward run takes, among the starts in [tentative cursor, tentative cursor
\* + lookAhead), the lowest of those with the highest count, only if that count is at
\* least 2 (3 conservative), and puts the tentative cursor past the run's last match;
\* the result is never lower than the tentative cursor the phase started from
C27_ForwardRun ==
    IsUpdated
        => LET best == bestStarts(forwardStartsFrom(ev.afterRegular),
                                  minConsecutiveForConfidence)
           IN  /\ ev.afterRun = IF best = {} THEN ev.afterRegular ELSE runEnd(Lowest(best))
               /\ ev.afterRun >= ev.afterRegular

\* a run selected among starts of equal count whose runs end at different positions
C27_Witness ==
    /\ IsUpdated
    /\ ev.afterRun > ev.afterRegular
    /\ \E p, q \in bestStarts(forwardStartsFrom(ev.afterRegular), minConsecutiveForConfidence) :
          /\ p < q
          /\ runEnd(p) < runEnd(q)
          /\ ev.afterRun = runEnd(p)

(***************************************************************************)
(* findConsecutiveMatches                                                  *)
(***************************************************************************)
HasReturned == ev.op = "returned"

\* the run's matched positions, latest first, from the i-th word on with the
\* reference index at idx: a word of one character is passed over, any other takes
\* the lowest match at idx..idx+maxGap and the next starts just past it
RECURSIVE matchedPositions(_, _, _)
matchedPositions(i, idx, found) ==
    IF i > Len(ev.wordsToProcess) THEN found
    ELSE IF Len(ev.wordsToProcess[i]) <= 1 THEN matchedPositions(i + 1, idx, found)
    ELSE LET hits == matchesIn(ev.wordsToProcess[i], idx..(idx + ev.maxGap))
         IN  IF hits = {} THEN found
             ELSE matchedPositions(i + 1, Lowest(hits) + 1, <<Lowest(hits)>> \o found)

\* C28: findConsecutiveMatches passes over words of one character without counting
\* them or ending the run; every other word must match at an offset 0..maxGap from
\* the reference index, which then moves just past the match; the first word without
\* such a match ends the run; the result is the number of matches and the position
\* of the last one, and the matched positions increase strictly
C28_RunScan ==
    HasReturned
        => LET found == matchedPositions(ev.spokenStart + 1, ev.scriptStart, <<>>)
           IN  /\ ev.count = Len(found)
               /\ ev.endPos = IF found = <<>> THEN ev.scriptStart ELSE Head(found)
               /\ \A k \in 1..(Len(found) - 1) : found[k + 1] < found[k]
               /\ ev.count <= Len(ev.wordsToProcess) - ev.spokenStart
               /\ ev.endPos - ev.scriptStart < ev.count * (ev.maxGap + 1) \/ ev.count = 0

\* a run that passed over a word of one character, matched the word after it two
\* positions on, and ended at a word with no match within the gap
C28_Witness ==
    /\ HasReturned
    /\ ev.spokenStart = 0
    /\ Len(ev.wordsToProcess) = 4
    /\ Len(ev.wordsToProcess[2]) = 1
    /\ ev.count = 2
    /\ ev.endPos = ev.scriptStart + 3
    /\ matchesIn(ev.wordsToProcess[4], (ev.endPos + 1)..Len(NormalizedTexts[content])) # {}

(***************************************************************************)
(* The gap of the run scan and the order of the phases                     *)
(***************************************************************************)
\* the run from the start position pos when gap positions are tolerated per word
runWithGap(pos, gap) ==
    findConsecutiveMatches(ev.wordsToProcess, NormalizedTexts[content], 0, pos, gap)

\* the tentative cursor the forward run leaves when gap positions are tolerated
forwardRunWithGap(gap) ==
    LET starts == forwardStartsFrom(ev.afterRegular)
        best == {pos \in starts :
                    /\ runWithGap(pos, gap).count >= minConsecutiveForConfidence
                    /\ \A q \in starts : runWithGap(q, gap).count <= runWithGap(pos, gap).count}
    IN  IF best = {} THEN ev.afterRegular ELSE runWithGap(Lowest(best), gap).endPos + 1

\* C29 as stated: the run scan tolerates a gap of 2 reference positions per spoken
\* word under the default profile and of 3 under the conservative profile
C29_GapByProfile ==
    IsUpdated => ev.afterRun = forwardRunWithGap(IF fadeMode = "lines" THEN 3 ELSE 2)

\* C29: the run scan tolerates a gap of 2 reference positions per spoken word under
\* both profiles
C29_GapOfTwo ==
    IsUpdated => ev.afterRun = forwardRunWithGap(2)

\* a conservative session whose words form a run of 3 only if a gap of 3 is
\* tolerated, and the forward run left the tentative cursor where it was
C29_Witness ==
    /\ IsUpdated
    /\ fadeMode = "lines"
    /\ forwardRunWithGap(3) > ev.afterRegular
    /\ forwardRunWithGap(2) = ev.afterRegular
    /\ ev.afterRun = ev.afterRegular

\* the tentative cursor the forward run leaves when it starts at the position from
forwardRunFrom(from) ==
    LET starts == forwardStartsFrom(from)
        best == {pos \in starts :
                    /\ runCount(pos) >= minConsecutiveForConfidence
                    /\ \A q \in starts : runCount(q) <= runCount(pos)}
    IN  IF best = {} THEN from ELSE runEnd(Lowest(best))

\* C30: the phases run in the order backward, pause, regular single word, forward
\* run; each forward phase starts from the tentative cursor the phases before it
\* left, and only the cap on the advance is taken from the pre-event cursor
C30_PhaseOrder ==
    IsUpdated
        => /\ ev.scriptPos =
                 forwardRunFrom(regularWalk(1, IF ev.isPaused
                                               THEN pauseWalk(1, ev.afterBackward)
                                               ELSE ev.afterBackward))
           /\ targetWordCount = Min(ev.scriptPos, ev.current + (IF ev.isFinal THEN 30 ELSE 15))

\* a paused event that went backward and then forward again through the pause, the
\* regular and the run phase in turn, to a position short of the pre-event cursor
C30_Witness ==
    /\ IsUpdated
    /\ ev.isPaused
    /\ ev.afterBackward < ev.afterPause
    /\ ev.afterPause < ev.afterRegular
    /\ ev.afterRegular < ev.scriptPos
    /\ ev.scriptPos < ev.current
    /\ targetWordCount = ev.scriptPos

(***************************************************************************)
(* Words that match nothing                                                *)
(***************************************************************************)
\* the word matches no reference word of the script
matchesNowhere(word) == matchesIn(word, 0..Len(NormalizedTexts[content])) = {}

\* C31: a processed word that matches nothing leaves the tentative cursor where it
\* was, and a later word of the same event still advances it by its own single-word
\* match: when every word before the j-th matches nowhere and the j-th, of the local
\* minimum length, matches in the narrow window, the regular phase ends past that match
C31_MissDoesNotBlock ==
    IsUpdated
        => /\ (\A i \in 1..Len(ev.wordsToProcess) : matchesNowhere(ev.wordsToProcess[i]))
                 => ev.afterRegular = ev.afterPause /\ ev.afterPause = ev.afterBackward
           /\ \A j \in 1..Len(ev.wordsToProcess) :
                 /\ \A i \in 1..(j - 1) : matchesNowhere(ev.wordsToProcess[i])
                 /\ Len(ev.wordsToProcess[j]) >= localWordLength
                 /\ matchesIn(ev.wordsToProcess[j], narrowWindowFrom(ev.afterPause)) # {}
                 => ev.afterRegular
                       > Lowest(matchesIn(ev.wordsToProcess[j], narrowWindowFrom(ev.afterPause)))

\* an event whose first word matches nothing and whose second word moved the
\* tentative cursor in the regular phase
C31_Witness ==
    /\ IsUpdated
    /\ Len(ev.wordsToProcess) = 2
    /\ Len(ev.wordsToProcess[1]) >= longRangeWordLength
    /\ matchesNowhere(ev.wordsToProcess[1])
    /\ ev.afterRegular > ev.afterPause
    /\ ev.afterRegular - 1 \in matchesIn(ev.wordsToProcess[2], narrowWindowFrom(ev.afterPause))

(***************************************************************************)
(* The reference words                                                     *)
(***************************************************************************)
\* C32: the reference word sequence holds no punctuation-only token: every reference
\* position has a non-empty normalized word
C32_NoEmptyReferenceWord ==
    \A p \in 0..(Len(NormalizedTexts[content]) - 1) : Len(referenceAt(p)) > 0

(***************************************************************************)
(* Manual jumps and verbatim reading                                       *)
(***************************************************************************)
\* C33: after a manual jump to word i, a transcript event that carries the same text
\* as the last event before the jump, with no newly spoken word, leaves the cursor at i
C33_JumpNotFoughtByOldWords ==
    [][/\ TranscriptStep
       /\ ev.op = "click"
       /\ wordCount(ev.heard) > 0
       /\ ev'.text = ev.heard
       => targetWordCount' = targetWordCount]_vars

\* C34: while every hypothesis is a prefix of the script longer than the one before
\* it, no event lowers the cursor
C34_VerbatimNeverBackward ==
    [][TranscriptStep /\ ev'.verbatim => targetWordCount' >= targetWordCount]_vars

(***************************************************************************)
(* The reach of a backward move                                            *)
(***************************************************************************)
\* C35: an event that lowers the cursor leaves it at max(0, cursor - 100) + 1 or
\* above, 100 being the look-behind window of the default profile
C35_BackwardWithinLookBehind ==
    IsUpdated /\ targetWordCount < ev.current
        => targetWordCount >= Max(0, ev.current - 100) + 1

\* a backward move to the very start of a look-behind window that does not reach
\* the start of the script
C35_Witness ==
    /\ IsUpdated
    /\ ev.current > 100
    /\ targetWordCount = ev.current - 100 + 1

\* C36: in the regular phase one spoken word moves the tentative cursor past at most
\* one reference occurrence of it: after an event of the single word w the phase
\* leaves the tentative cursor where it was or one past the lowest position at or
\* after it that matches w
C36_OneOccurrencePerWord ==
    IsUpdated /\ Len(ev.wordsToProcess) = 1
        => LET ahead == matchesIn(ev.wordsToProcess[1],
                                  ev.afterPause..Len(NormalizedTexts[content]))
           IN  \/ ev.afterRegular = ev.afterPause
               \/ ahead # {} /\ ev.afterRegular = Lowest(ahead) + 1

(***************************************************************************)
(* Results of a stopped session                                            *)
(***************************************************************************)
\* C37: a transcript result that arrives while no session runs, from a session that
\* was stopped, changes neither the cursor nor the consumed count nor the recorded time
C37_StoppedSessionIsInert ==
    [][TranscriptStep /\ ~listening
          => UNCHANGED <<targetWordCount, lastProcessedWordCount, lastTranscriptTime>>]_vars

(***************************************************************************)
(* The displayed position                                                  *)
(***************************************************************************)
FrameStep == ev'.op = "frame" /\ now' = now

\* C38: an animation frame in voice mode while playing that finds the displayed
\* position off the cursor moves it at least one word toward the cursor and never past it
C38_FrameMovesTowardCursor ==
    [][listening /\ FrameStep /\ spokenWordCount # targetWordCount
          => IF spokenWordCount < targetWordCount
             THEN spokenWordCount' > spokenWordCount /\ spokenWordCount' <= targetWordCount
             ELSE spokenWordCount' < spokenWordCount /\ spokenWordCount' >= targetWordCount]_vars

(***************************************************************************)
(* The pause timer of lines mode                                           *)
(***************************************************************************)
TickStep == ev'.op = "tick" /\ now' = now
ResetStep == ev'.op = "reset" /\ now' = now

\* C39: a tick of the pause timer leaves the cursor or raises it by exactly 1, moves
\* it only to a position below the script length, and happens only in lines mode with
\* a recorded last-event time, more than 800 ms after it and with the end-of-line flag
\* set, which it clears; the recorded time is set only by a transcript event, to that
\* event's time, and cleared only by reset(), which always clears it
C39_PauseTick ==
    [][/\ TickStep
            => /\ targetWordCount' \in {targetWordCount, targetWordCount + 1}
               /\ targetWordCount' # targetWordCount => targetWordCount' < scriptLength
               /\ listening
               /\ fadeMode = "lines"
               /\ lastTranscriptTimeRef > 0
               /\ now - lastTranscriptTimeRef > PauseTimerThresholdMs
               /\ isAtEndOfLineRef
               /\ ~isAtEndOfLineRef'
       /\ ResetStep => lastTranscriptTimeRef' = 0
       /\ lastTranscriptTimeRef' # lastTranscriptTimeRef
            => \/ TranscriptStep /\ lastTranscriptTimeRef' = now
               \/ ResetStep]_vars

\* a tick moved the cursor to the last word of the script
C39_Witness ==
    /\ ev.op = "tick"
    /\ targetWordCount = ev.before + 1
    /\ targetWordCount + 1 = scriptLength
    /\ lastTranscriptTimeRef > 0
    /\ ~isAtEndOfLineRef

====
